---------------------------- MODULE Spec2Model ----------------------------
(***************************************************************************)
(* A model of the splits-feed pipeline.                                    *)
(*                                                                         *)
(* Spec        : the persisted observation log splits.csv with its writers *)
(*               (scripts/splits_ocr.py appends, scripts/                  *)
(*               splits_guard_clean.py filters and promotes) and a reader  *)
(*               (scripts/live_delta_analysis.py).                         *)
(* SpecResolve : the team dictionaries and the tweet resolvers             *)
(*               (scripts/ingest_twitter_csv.py,                           *)
(*               scripts/analyze_twitter_text.py, and the alias loader of  *)
(*               scripts/splits_guard_clean.py).                           *)
(* SpecMerge   : the dedup steps of scripts/live_delta_analysis.py,        *)
(*               scripts/splits_ocr.py and scripts/normalize_and_merge.py. *)
(* SpecBoard   : scripts/boardroom_picks.py and the two renderers,         *)
(*               scripts/boardroom_render.py and                           *)
(*               scripts/scripts/boardroom_render.py.                      *)
(* SpecSnapshot: the per-day snapshot file of                              *)
(*               scripts/live_delta_analysis.py.                           *)
(* SpecClean   : scripts/clean_boardroom_inputs.py.                        *)
(*                                                                         *)
(* Text is modelled as TLA+ strings; TLC evaluates Len, \o, Head, Tail and *)
(* SubSeq on strings, so a character is a string of length one.            *)
(***************************************************************************)
EXTENDS Integers, Sequences, FiniteSets, TLC

VARIABLES
    dictionaries, \* the dictionaries folder: for each of DictFiles, [isfile, data]
    tdict,        \* team_dictionary.json: the pairs of its "aliases" object
    tfile,        \* team_dictionary.json on disk: "json", "missing" or
                  \* "malformed" (not JSON)
    rpc,          \* the resolver process that runs: "idle" before it starts,
                  \* "done" once it has ended, "failed" once an exception
                  \* nothing catches has ended it
    ing,          \* ingest_twitter_csv: team_to_league and patterns once loaded
    call,         \* ingest_twitter_csv: the last text resolved, its hits and pair
    irun,         \* the last run of ingest_twitter_csv.py as a script
    ana,          \* analyze_twitter_text: ALIAS_TO and ALIAS_PATTERNS
    arows,        \* analyze_twitter_text: rows
    aout,         \* analyze_twitter_text: the file written to --out
    guard_aliases, \* splits_guard_clean: the alias_map of load_aliases
    gcall,        \* splits_guard_clean: the last team text resolved and its result
    splits,       \* splits.csv: [exists, lines], a line is a tuple of fields
    clean,        \* splits_clean.csv, same shape
    now,          \* the clock read by now_ts()
    gpc,          \* position of the guard process in main()
    gdf,          \* the guard's in-memory data frame after filtering (rows)
    gpromote,     \* the guard's --promote flag
    goff,         \* lines of splits.csv the guard has written since it opened it
    gbefore,      \* splits.csv as it was when the guard run read it
    observed,     \* what the last read of splits.csv by the reader saw
    obs,          \* the observation rows a dedup step is given
    tables,       \* normalize_and_merge: the tables read, res_tbl and tw_tbl before the concat
    merged,       \* the last dedup step: its name, input and output
    bsignals,     \* the signals file of the boardroom scripts: its rows
    bagg,         \* boardroom_picks: what aggregate returned
    bpicks,       \* boardroom/boardroom_picks.csv
    bmd,          \* boardroom/boardroom_picks.md
    board,        \* the renderer: which file ran, how often, the two files as
                  \* its last run found them, and what that run computed
    bfound,       \* os.path.isfile of the signals file
    bteams,       \* scripts/team_dictionary.json as the renderers find it
    bexit,        \* for each boardroom script, the exit status of its last
                  \* run and the number of entities that run promoted
    feed,         \* splits.csv as live_delta_analysis reads it: its rows
    snapcsv,      \* reports/<today>/game_snapshots.csv: [exists, rows]
    lrun,         \* the last run of live_delta_analysis.py: how many runs
                  \* there were, the groups and the snapshot of the last one
    binputs,      \* audit_out/boardroom_inputs.csv: [exists, rows]
    crun          \* clean_boardroom_inputs.py: how many runs there were, keep
                  \* and drop of the last one, unresolved_from_boardroom.txt

pvars == <<splits, clean, now, gpc, gdf, gpromote, goff, gbefore, observed>>

rvars == <<dictionaries, tdict, tfile, rpc, ing, call, irun, ana, arows, aout, guard_aliases, gcall>>
mvars == <<obs, tables, merged>>
bvars == <<bsignals, bagg, bpicks, bmd, board, bfound, bteams, bexit>>
svars == <<feed, snapcsv, lrun, binputs, crun>>
ovars == <<mvars, bvars, svars>>
vars == <<pvars, rvars, ovars>>

-----------------------------------------------------------------------------
(* Characters and strings (Python str methods and the regex classes used)  *)

UpperAlpha == "ABCDEFGHIJKLMNOPQRSTUVWXYZ"
LowerAlpha == "abcdefghijklmnopqrstuvwxyz"
Digits == "0123456789"

Ch(s, i) == SubSeq(s, i, i)

IndexIn(c, alphabet) ==
    IF \E i \in 1..Len(alphabet) : Ch(alphabet, i) = c
    THEN CHOOSE i \in 1..Len(alphabet) : Ch(alphabet, i) = c
    ELSE 0

UpperSet == {Ch(UpperAlpha, i) : i \in 1..Len(UpperAlpha)}
LowerSet == {Ch(LowerAlpha, i) : i \in 1..Len(LowerAlpha)}
DigitSet == {Ch(Digits, i) : i \in 1..Len(Digits)}
LetterSet == UpperSet \cup LowerSet
WordSet == LetterSet \cup DigitSet \cup {"_"}

IsLetter(c) == c \in LetterSet
IsDigit(c) == c \in DigitSet
IsSpace(c) == c = " "
\* \w
IsWordChar(c) == c \in WordSet

ToUpper == [c \in LowerSet |-> Ch(UpperAlpha, IndexIn(c, LowerAlpha))]
ToLower == [c \in UpperSet |-> Ch(LowerAlpha, IndexIn(c, UpperAlpha))]
DigitVal == [c \in DigitSet |-> IndexIn(c, Digits) - 1]

RECURSIVE MapChars(_, _)
\* s with every character in the domain of f replaced by its image
MapChars(s, f) ==
    IF s = "" THEN ""
    ELSE (IF Head(s) \in DOMAIN f THEN f[Head(s)] ELSE Head(s)) \o MapChars(Tail(s), f)

\* str.upper(), str.lower()
Upper(s) == MapChars(s, ToUpper)
Lower(s) == MapChars(s, ToLower)

RECURSIVE LStrip(_)
LStrip(s) == IF s # "" /\ IsSpace(Head(s)) THEN LStrip(Tail(s)) ELSE s

RECURSIVE RStrip(_)
RStrip(s) ==
    IF s # "" /\ IsSpace(Ch(s, Len(s))) THEN RStrip(SubSeq(s, 1, Len(s) - 1)) ELSE s

\* str.strip()
Strip(s) == RStrip(LStrip(s))

RECURSIVE CollapseSpaces(_)
\* re.sub(r"\s+", " ", s)
CollapseSpaces(s) ==
    IF s = "" THEN ""
    ELSE IF IsSpace(Head(s))
         THEN " " \o CollapseSpaces(LStrip(s))
         ELSE Head(s) \o CollapseSpaces(Tail(s))

\* s.startswith(p) at offset i (1-based): s[i-1:].startswith(p)
StartsAt(s, i, p) == i + Len(p) - 1 <= Len(s) /\ SubSeq(s, i, i + Len(p) - 1) = p

\* s.endswith(p)
EndsWith(s, p) == Len(p) <= Len(s) /\ SubSeq(s, Len(s) - Len(p) + 1, Len(s)) = p

\* p in s
Contains(s, p) == \E i \in 1..(Len(s) + 1) : StartsAt(s, i, p)

RECURSIVE SplitWords(_)
\* str.split(): the whitespace-separated words of s, in order
SplitWords(s) ==
    LET t == LStrip(s)
    IN IF t = "" THEN <<>>
       ELSE LET ends == {i \in 1..Len(t) : i = Len(t) \/ IsSpace(Ch(t, i + 1))}
                e == CHOOSE i \in ends : \A j \in ends : i <= j
            IN <<SubSeq(t, 1, e)>> \o SplitWords(SubSeq(t, e + 1, Len(t)))

RECURSIVE JoinWords(_, _)
\* sep.join(words)
JoinWords(words, sep) ==
    IF words = <<>> THEN ""
    ELSE IF Len(words) = 1 THEN words[1]
    ELSE words[1] \o sep \o JoinWords(Tail(words), sep)

RECURSIVE ParseInt(_)
\* int(s) for a string of decimal digits
ParseInt(s) ==
    IF s = "" THEN 0
    ELSE 10 * ParseInt(SubSeq(s, 1, Len(s) - 1)) + DigitVal[Ch(s, Len(s))]

RECURSIVE IntToStr(_)
\* str(n) for n >= 0
IntToStr(n) ==
    IF n < 10 THEN Ch(Digits, n + 1)
    ELSE IntToStr(n \div 10) \o Ch(Digits, (n % 10) + 1)

\* v, evaluated once, handed to F
With(v, F(_)) == CHOOSE r \in {F(x) : x \in {v}} : TRUE

\* for x in seq: acc = Op(acc, x), evaluated by halves
FoldLeft(Op(_, _), acc, seq) ==
    LET RECURSIVE F(_, _, _)
        F(a, lo, hi) ==
            IF lo > hi THEN a
            ELSE IF lo = hi THEN Op(a, seq[lo])
            ELSE With(F(a, lo, (lo + hi) \div 2),
                      LAMBDA left : F(left, (lo + hi) \div 2 + 1, hi))
    IN F(acc, 1, Len(seq))

\* the elements of the sequences of seqs, in order
Flatten(seqs) == FoldLeft(LAMBDA a, b : a \o b, <<>>, seqs)

\* the stable sort order of a list of integer keys (sorted(), list.sort():
\* equal keys keep their input order): position r of the result holds
\* element StableOrder(keys)[r] of the input
StableOrder(keys) ==
    LET n == Len(keys)
        Rank(i) == Cardinality({j \in 1..n : keys[j] < keys[i] \/ (keys[j] = keys[i] /\ j < i)}) + 1
    IN [r \in 1..n |-> CHOOSE i \in 1..n : Rank(i) = r]

\* sorted(seq, key=...) given the keys of the elements
SortByKeys(seq, keys) ==
    LET order == StableOrder(keys)
    IN [r \in 1..Len(seq) |-> seq[order[r]]]

-----------------------------------------------------------------------------
(* scripts/splits_ocr.py                                                   *)

FIELDNAMES ==
    <<"timestamp", "league", "away_team", "home_team", "market",
      "tickets_pct", "handle_pct", "line", "source">>

\* now_ts(): the clock formatted as an ISO timestamp (here "T" and the seconds)
NowTs(t) == "T" \o IntToStr(t)

\* length of the match of [-+]?\d+(?:\.\d+)?\b at the head of s, 0 if none
NumberJunkLen(s) ==
    LET sign == IF s # "" /\ Head(s) \in {"-", "+"} THEN 1 ELSE 0
        DigitsFrom(i) ==
            IF i <= Len(s) /\ IsDigit(Ch(s, i))
            THEN (CHOOSE e \in i..Len(s) :
                     /\ \A j \in i..e : IsDigit(Ch(s, j))
                     /\ (e = Len(s) \/ ~IsDigit(Ch(s, e + 1)))) - i + 1
            ELSE 0
        IsWord(i) == i <= Len(s) /\ IsWordChar(Ch(s, i))
        d1 == DigitsFrom(sign + 1)
        e1 == sign + d1
        d2 == IF d1 > 0 /\ e1 < Len(s) /\ Ch(s, e1 + 1) = "." THEN DigitsFrom(e1 + 2) ELSE 0
        e2 == e1 + 1 + d2
    IN IF d1 = 0 THEN 0
       ELSE IF d2 > 0 /\ ~IsWord(e2 + 1) THEN e2
       ELSE IF ~IsWord(e1 + 1) THEN e1
       ELSE 0

RECURSIVE SubTeamJunk(_)
\* TEAM_JUNK.sub(" ", s): every number, and every capital O or U, goes with
\* the whitespace around it and leaves one space
SubTeamJunk(s) ==
    IF s = "" THEN ""
    ELSE LET t == LStrip(s)
             n == NumberJunkLen(t)
         IN IF n > 0 THEN " " \o SubTeamJunk(LStrip(SubSeq(t, n + 1, Len(t))))
            ELSE IF t # "" /\ Head(t) \in {"O", "U"} THEN " " \o SubTeamJunk(LStrip(Tail(t)))
            ELSE Head(s) \o SubTeamJunk(Tail(s))

\* re.sub(r"\bat\s*$", "", out, flags=re.I)
SubTrailingAt(out) ==
    LET r == RStrip(out)
        n == Len(r)
    IN IF /\ n >= 2
          /\ Lower(SubSeq(r, n - 1, n)) = "at"
          /\ (n = 2 \/ ~IsWordChar(Ch(r, n - 2)))
       THEN SubSeq(r, 1, n - 2)
       ELSE out

clean_team_name(s) == Strip(SubTrailingAt(CollapseSpaces(Strip(SubTeamJunk(s)))))

HasDigit(s) == \E i \in 1..Len(s) : IsDigit(Ch(s, i))

\* One in-memory row (a dict keyed by FIELDNAMES).  int(...) of the matched
\* digits is written back by csv as str(int).
OcrRow(ts, league, away, home, market, bets, handle, line, source) ==
    [timestamp |-> ts, league |-> league, away_team |-> away, home_team |-> home,
     market |-> market, tickets_pct |-> bets, handle_pct |-> handle,
     line |-> line, source |-> source]

RECURSIVE parse_grid_from(_, _, _, _)
\* the pairing loop of parse_grid: recs i and i+1 are away and home
parse_grid_from(recs, i, league, ts) ==
    IF i + 1 > Len(recs) THEN <<>>
    ELSE LET away == recs[i]
             home == recs[i + 1]
             \* a rec's bets/handle: "" stands for None, else the digits matched
             add(market, line) ==
                 IF away.bets = "" \/ home.bets = "" THEN <<>>
                 ELSE <<OcrRow(ts, league, away.team, home.team, market,
                               IntToStr(ParseInt(home.bets)),
                               IF home.handle # "" THEN IntToStr(ParseInt(home.handle)) ELSE "0",
                               line, "GRID_OCR")>>
             Or(a, b) == IF a # "" THEN a ELSE b
         IN add("ML", Or(home.ml, away.ml)) \o add("Spread", Or(home.sp, away.sp))
            \o add("Total", Or(home.tot, away.tot))
            \o parse_grid_from(recs, i + 2, league, ts)

\* parse_grid on the TEAM_LINE matches of the text, in line order
parse_grid(recs, league, ts) == parse_grid_from(recs, 1, league, ts)

RECURSIVE parse_mgm(_, _, _)
\* parse_mgm on the "<away> at <home>" matches of the text: each carries the
\* PCT2 groups of its 4-line window ("" when PCT2 does not match) and the
\* ML/spread/total signatures found there
parse_mgm(games, league, ts) ==
    IF games = <<>> THEN <<>>
    ELSE LET g == Head(games)
             bets == IF g.bets # "" THEN IntToStr(ParseInt(g.bets)) ELSE "0"
             handle == IF g.bets # "" THEN IntToStr(ParseInt(g.handle)) ELSE "0"
             add(market, line) ==
                 <<OcrRow(ts, league, g.away, g.home, market, bets, handle, line, "MGM_FAM")>>
         IN add("ML", g.ml) \o add("Spread", g.sp) \o add("Total", g.tot)
            \o parse_mgm(Tail(games), league, ts)

RECURSIVE CleanDedup(_, _)
\* the clean + dedup loop of parse_blocks
CleanDedup(rows, seen) ==
    IF rows = <<>> THEN <<>>
    ELSE LET r0 == Head(rows)
             r == [r0 EXCEPT !.away_team = clean_team_name(r0.away_team),
                             !.home_team = clean_team_name(r0.home_team)]
             sig == <<r.league, r.away_team, r.home_team, r.market, r.line, r.source>>
         IN IF r.away_team = "" \/ r.home_team = "" THEN CleanDedup(Tail(rows), seen)
            ELSE IF HasDigit(r.away_team) \/ HasDigit(r.home_team) THEN CleanDedup(Tail(rows), seen)
            ELSE IF sig \in seen THEN CleanDedup(Tail(rows), seen)
            ELSE <<r>> \o CleanDedup(Tail(rows), seen \cup {sig})

\* parse_blocks on one OCR'd image: img.layout and img.league are the layout
\* and league after the account lock and the inference
parse_blocks(img, ts) ==
    LET mgm == parse_mgm(img.games, img.league, ts)
        grid == parse_grid(img.recs, img.league, ts)
        rows == IF img.layout = "MGM" THEN mgm
                ELSE IF img.layout = "GRID" THEN grid
                ELSE IF mgm # <<>> THEN mgm ELSE grid
    IN CleanDedup(rows, {})

\* csv.DictWriter(f, fieldnames=FIELDNAMES).writerow(r)
RowLine(r) ==
    <<r.timestamp, r.league, r.away_team, r.home_team, r.market,
      r.tickets_pct, r.handle_pct, r.line, r.source>>

-----------------------------------------------------------------------------
(* scripts/splits_guard_clean.py                                           *)

\* the literal patterns of BAD_PATTERNS; matching ignores case
BadLiterals ==
    {"estimating resolution", "betting splits expanded splits",
     "handle bets total handle bets", "money dle bets", "chiefs ad"}

\* re.search of "|".join(BAD_PATTERNS) in s, ignoring case
MatchesBadPattern(s) ==
    LET l == Lower(s)
        AllLetters(i, n) == i + n - 1 <= Len(l) /\ \A j \in i..(i + n - 1) : IsLetter(Ch(l, j))
    IN \/ \E lit \in BadLiterals : Contains(l, lit)
       \/ EndsWith(RStrip(l), "spread")                       \* Spread\s*$
       \/ \E i \in 1..Len(l), n \in 3..9 :                    \* MLB - [A-Za-z]{3,9},?Sep
            /\ StartsAt(l, i, "mlb - ")
            /\ AllLetters(i + 6, n)
            /\ (StartsAt(l, i + 6 + n, "sep") \/ StartsAt(l, i + 6 + n, ",sep"))

MARKETS == {"Spread", "ML", "Moneyline", "Total", "O/U", "OU"}

RECURSIVE NormChars(_)
\* re.sub(r"[^A-Za-z0-9& +./'-]", " ", s)
NormChars(s) ==
    IF s = "" THEN ""
    ELSE LET c == Head(s)
         IN (IF IsLetter(c) \/ IsDigit(c) \/ c \in {"&", " ", "+", ".", "/", "'", "-"}
             THEN c ELSE " ") \o NormChars(Tail(s))

_norm(s) == Strip(CollapseSpaces(NormChars(s)))

\* A dict is a sequence of <<key, value>> pairs in insertion order.
DictHas(d, k) == \E i \in 1..Len(d) : d[i][1] = k
DictGet(d, k) == d[CHOOSE i \in 1..Len(d) : d[i][1] = k][2]
\* d[k] = v: a key that is present keeps its place and takes the new value
DictSet(d, k, v) ==
    IF DictHas(d, k)
    THEN [i \in 1..Len(d) |-> IF d[i][1] = k THEN <<k, v>> ELSE d[i]]
    ELSE Append(d, <<k, v>>)

\* load_aliases.add(team, canon)
add(alias_map, team, canon) ==
    LET t == Lower(_norm(team))
    IN IF t = "" THEN alias_map ELSE DictSet(alias_map, t, canon)

RECURSIVE AddAll(_, _, _)
AddAll(alias_map, arr, canon) ==
    IF arr = <<>> THEN alias_map
    ELSE AddAll(add(alias_map, Head(arr), canon), Tail(arr), canon)

RECURSIVE load_aliases_from(_, _)
load_aliases_from(alias_map, entries) ==
    IF entries = <<>> THEN alias_map
    ELSE load_aliases_from(AddAll(alias_map, Head(entries)[2], Head(entries)[1]), Tail(entries))

\* load_aliases on a file of the shape {"aliases": {canon: [alias, ...]}},
\* given as the sequence of <<canon, aliases>> in file order
load_aliases(raw) == load_aliases_from(<<>>, raw)

resolve_team(txt, alias_map) ==
    LET s == Lower(_norm(txt))
        n == Len(alias_map)
        suffix == {i \in 1..n : EndsWith(s, alias_map[i][1])}
        inside == {i \in 1..n : Contains(" " \o s \o " ", " " \o alias_map[i][1] \o " ")}
        First(S) == CHOOSE i \in S : \A j \in S : i <= j
    IN IF s = "" THEN "None"
       ELSE IF DictHas(alias_map, s) THEN DictGet(alias_map, s)
       ELSE IF suffix # {} THEN alias_map[First(suffix)][2]
       ELSE IF inside # {} THEN alias_map[First(inside)][2]
       ELSE "None"

looks_bad_team(s0) ==
    LET s == _norm(s0)
    IN \/ MatchesBadPattern(s)
       \/ Cardinality({i \in 1..Len(s) : IsLetter(Ch(s, i))}) < 3

\* coerce_pct on a field of the log: "" is the empty field (None/NaN); the
\* result is the float as to_csv prints it, or "" for None
coerce_pct(x) ==
    LET t == Strip(x)
        v == ParseInt(t)
    IN IF t = "" THEN ""
       ELSE IF ~(\A i \in 1..Len(t) : IsDigit(Ch(t, i))) THEN ""
       ELSE IF 0 <= v /\ v <= 100 THEN IntToStr(v) \o ".0"
       ELSE ""

RECURSIVE ReplaceLit(_, _, _)
\* str.replace(old, new)
ReplaceLit(s, old, new) ==
    IF s = "" THEN ""
    ELSE IF StartsAt(s, 1, old) THEN new \o ReplaceLit(SubSeq(s, Len(old) + 1, Len(s)), old, new)
    ELSE Head(s) \o ReplaceLit(Tail(s), old, new)

\* the three market normalisations of main
NormMarket(m) ==
    LET s1 == ReplaceLit(m, "Money Line", "ML")
        s2 == IF Upper(Strip(s1)) \in {"ML", "MONEYLINE", "MONEY LINE"} THEN "ML" ELSE s1
    IN IF Lower(Strip(s2)) \in {"total", "o/u", "ou"} THEN "Total" ELSE s2

\* to_ts: pd.to_datetime(x, utc=True) as seconds, -1 for NaT.  It reads the
\* ISO form now_ts() writes and the form to_csv prints a UTC timestamp in.
to_ts(x) ==
    LET AllDigits(t) == t # "" /\ \A i \in 1..Len(t) : IsDigit(Ch(t, i))
    IN IF StartsAt(x, 1, "T") /\ AllDigits(Tail(x)) THEN ParseInt(Tail(x))
       ELSE IF EndsWith(x, "+00:00") /\ AllDigits(SubSeq(x, 1, Len(x) - 6))
            THEN ParseInt(SubSeq(x, 1, Len(x) - 6))
       ELSE -1

\* how to_csv prints a UTC timestamp
TsCsv(t) == IntToStr(t) \o "+00:00"

keep_cols == <<"timestamp", "away", "home", "market", "tickets_pct", "handle_pct", "line", "source">>

need == {"timestamp", "away_team", "home_team", "market", "source"}

\* the column names of a frame read from a file, after the rename of main
Columns(f) == [i \in 1..Len(f.lines[1]) |-> ReplaceLit(Lower(_norm(f.lines[1][i])), " ", "_")]

\* pd.read_csv succeeds and the required columns are there: main goes on to
\* filter.  (An empty file, or a data line with more fields than the header,
\* makes read_csv raise; a missing file or missing columns exit with 0.)
GuardCanFilter(f) ==
    /\ f.exists
    /\ Len(f.lines) >= 1
    /\ \A i \in 2..Len(f.lines) : Len(f.lines[i]) <= Len(f.lines[1])
    /\ With(Columns(f), LAMBDA cols : need \subseteq {cols[i] : i \in 1..Len(cols)})

\* the field of data line `ln` in the column named c ("" if the column is
\* absent or the line is short)
Field(cols, ln, c) ==
    LET at == {i \in 1..Len(cols) : cols[i] = c}
        i == CHOOSE k \in at : \A j \in at : j <= k
    IN IF at = {} \/ i > Len(ln) THEN "" ELSE ln[i]

\* the row main keeps for one data line, or <<>> when a filter drops it
GuardRow(cols, ln, alias_map) ==
    LET away_team == Field(cols, ln, "away_team")
        home_team == Field(cols, ln, "home_team")
        market == NormMarket(Field(cols, ln, "market"))
        away == resolve_team(away_team, alias_map)
        home == resolve_team(home_team, alias_map)
        ts == to_ts(Field(cols, ln, "timestamp"))
    IN IF MatchesBadPattern(away_team) \/ MatchesBadPattern(home_team) THEN <<>>
       ELSE IF market \notin MARKETS THEN <<>>
       ELSE IF looks_bad_team(away_team) \/ looks_bad_team(home_team) THEN <<>>
       ELSE IF away = "None" \/ home = "None" \/ away = home THEN <<>>
       ELSE IF ts = -1 THEN <<>>
       ELSE <<[timestamp |-> ts, away |-> away, home |-> home, market |-> market,
               tickets_pct |-> coerce_pct(Field(cols, ln, "tickets_pct")),
               handle_pct |-> coerce_pct(Field(cols, ln, "handle_pct")),
               line |-> Field(cols, ln, "line"), source |-> Field(cols, ln, "source")]>>

RECURSIVE GuardRows(_, _, _, _)
GuardRows(f, cols, i, alias_map) ==
    IF i > Len(f.lines) THEN <<>>
    ELSE GuardRow(cols, f.lines[i], alias_map) \o GuardRows(f, cols, i + 1, alias_map)

\* the frame main writes: the kept rows, sorted by timestamp
GuardFrame(f, alias_map) ==
    With(GuardRows(f, Columns(f), 2, alias_map),
         LAMBDA rows : SortByKeys(rows, [i \in 1..Len(rows) |-> rows[i].timestamp]))

\* df.to_csv(path, index=False): the header line and one line per row
GuardLines(df) ==
    <<keep_cols>> \o
    [i \in 1..Len(df) |->
        <<TsCsv(df[i].timestamp), df[i].away, df[i].home, df[i].market,
          df[i].tickets_pct, df[i].handle_pct, df[i].line, df[i].source>>]

-----------------------------------------------------------------------------
(* scripts/live_delta_analysis.py: the reader of splits.csv                *)

\* _read_csv(path, cols_required): the number of rows of the frame it returns
\* (0 for the empty DataFrame of a missing, empty or wrong-column file)
_read_csv(f, cols_required) ==
    IF ~f.exists \/ Len(f.lines) = 0 THEN 0
    ELSE IF ~(cols_required \subseteq {f.lines[1][i] : i \in 1..Len(f.lines[1])}) THEN 0
    ELSE Len(f.lines) - 1

-----------------------------------------------------------------------------
(* The inputs of the log pipeline                                          *)

MaxRuns == 2      \* OCR runs (the clock stops there)

\* scripts/team_dictionary.json, in the {"aliases": ...} shape
TeamDictionary ==
    << <<"BUF", <<"Bills", "Buffalo Bills", "BUF">>>>,
       <<"KC", <<"Chiefs", "Kansas City Chiefs", "KC">>>> >>

\* alias_map as main loads it
GuardAliases == load_aliases(TeamDictionary)

\* What OCR and the regexes of parse_grid / parse_mgm find in one image:
\* the away and home team texts and the two percentages matched on the home
\* line (TEAM_LINE groups 2 and 3, PCT2 groups 1 and 2), each \d{1,3};
\* <<"", "">> is a text with no percentages
Image(layout, a, h, pct) ==
    [layout |-> layout, league |-> "NFL",
     recs |-> IF pct[1] = "" THEN <<>>
              ELSE <<[team |-> a, bets |-> "50", handle |-> "50", ml |-> "", sp |-> "", tot |-> "50"],
                     [team |-> h, bets |-> pct[1], handle |-> pct[2],
                      ml |-> "-110", sp |-> "-3.5", tot |-> "45"]>>,
     games |-> <<[away |-> a, home |-> h, bets |-> pct[1], handle |-> pct[2],
                  ml |-> "-110", sp |-> "-3.5", tot |-> "45"]>>]

\* the screenshots a run may find in images/
Images ==
    {Image("GRID", "Bills", "Chiefs", <<"55", "60">>),
     Image("GRID", "Bills", "rs Chiefs U", <<"5", "140">>),
     Image("GRID", "Spread", "Chiefs", <<"55", "60">>),
     Image("MGM", "Bills", "Chiefs", <<"140", "060">>),
     Image("AUTO", "Bills", "Chiefs", <<"", "">>)}

Absent == [exists |-> FALSE, lines |-> <<>>]

\* a write of `lines` at line offset off of a file opened without O_APPEND
WriteAt(content, off, lines) ==
    SubSeq(content, 1, off) \o lines \o SubSeq(content, off + Len(lines) + 1, Len(content))

-----------------------------------------------------------------------------
(* The actions of the log pipeline                                         *)

\* splits_ocr.main on one image: parse, then append to splits.csv
OcrRun ==
    /\ now < MaxRuns
    /\ \E img \in Images :
         \E all_rows \in {parse_blocks(img, NowTs(now))} :
            splits' = IF all_rows = <<>> THEN splits
                      ELSE [exists |-> TRUE,
                            lines |-> splits.lines
                                      \o (IF splits.exists THEN <<>> ELSE <<FIELDNAMES>>)
                                      \o [i \in 1..Len(all_rows) |-> RowLine(all_rows[i])]]
    /\ now' = now + 1
    /\ UNCHANGED <<clean, gpc, gdf, gpromote, goff, gbefore, observed, rvars, ovars>>

\* splits_guard_clean.main up to the end of df.to_csv(args.out): read
\* splits.csv, filter, write splits_clean.csv
\* (args.promote is chosen here)
GuardRun ==
    /\ gpc = "idle"
    /\ IF GuardCanFilter(splits)
       THEN \E df \in {GuardFrame(splits, GuardAliases)} :
               /\ clean' = [exists |-> TRUE, lines |-> GuardLines(df)]
               /\ \E promote \in BOOLEAN :
                    /\ gpromote' = promote
                    /\ IF promote
                       THEN /\ gpc' = "promote"
                            /\ gdf' = df
                            /\ gbefore' = splits
                       ELSE UNCHANGED <<gpc, gdf, gbefore>>
       ELSE UNCHANGED <<clean, gpc, gdf, gbefore, gpromote>>
    /\ UNCHANGED <<splits, now, goff, observed, rvars, ovars>>

\* df.to_csv("splits.csv"): open for writing truncates the file
GuardPromoteOpen ==
    /\ gpc = "promote"
    /\ splits' = [exists |-> TRUE, lines |-> <<>>]
    /\ goff' = 0
    /\ gpc' = "writing"
    /\ UNCHANGED <<clean, now, gdf, gpromote, gbefore, observed, rvars, ovars>>

\* ... a buffer of k lines reaches the file before the close
GuardPromoteFlush ==
    /\ gpc = "writing"
    /\ \E k \in 1..(Len(GuardLines(gdf)) - goff) :
         /\ splits' = [splits EXCEPT !.lines =
                          WriteAt(@, goff, SubSeq(GuardLines(gdf), goff + 1, goff + k))]
         /\ goff' = goff + k
    /\ UNCHANGED <<clean, now, gpc, gdf, gpromote, gbefore, observed, rvars, ovars>>

\* ... the close writes what is left, and main returns
GuardPromoteClose ==
    /\ gpc = "writing"
    /\ splits' = [splits EXCEPT !.lines =
                     WriteAt(@, goff, SubSeq(GuardLines(gdf), goff + 1, Len(GuardLines(gdf))))]
    /\ gpc' = "idle"
    /\ gdf' = <<>>
    /\ goff' = 0
    /\ gbefore' = Absent
    /\ gpromote' = FALSE
    /\ UNCHANGED <<clean, now, observed, rvars, ovars>>

\* live_delta_analysis.load_frame reads splits.csv
ReaderRead ==
    /\ observed' = [rows |-> _read_csv(splits, {"league", "away_team", "home_team"}),
                    midwrite |-> gpc = "writing" /\ splits.lines # GuardLines(gdf)]
    /\ UNCHANGED <<splits, clean, now, gpc, gdf, gpromote, goff, gbefore, rvars, ovars>>

-----------------------------------------------------------------------------
(* scripts/ingest_twitter_csv.py                                           *)

\* the dictionary files load_dictionaries and load_dicts look for, in order
DictFiles == <<"nfl.json", "mlb.json", "nba.json", "nhl.json", "ncaaf_fbs_seed.json">>
FileLeague == <<"NFL", "MLB", "NBA", "NHL", "NCAAF">>

\* the (team, aliases) entries of the files that exist, with the league of
\* the file, in the order the loaders meet them
Entries(droot) ==
    Flatten([k \in 1..Len(DictFiles) |->
                IF droot[k].isfile
                THEN [i \in 1..Len(droot[k].data) |->
                         [league |-> FileLeague[k], team |-> droot[k].data[i][1],
                          aliases |-> droot[k].data[i][2]]]
                ELSE <<>>])

\* alias_to_teams[norm].add(team): the value is a set
AddTeam(alias_to_teams, norm, team) ==
    IF norm = "" THEN alias_to_teams
    ELSE DictSet(alias_to_teams, norm,
                 IF DictHas(alias_to_teams, norm) THEN DictGet(alias_to_teams, norm) \cup {team}
                 ELSE {team})

\* for a in aliases + [team]: norm = re.sub(r"\s+", " ", str(a).strip()).upper()
NormAliases(entry) ==
    LET names == Append(entry.aliases, entry.team)
    IN [j \in 1..Len(names) |-> <<Upper(CollapseSpaces(Strip(names[j]))), entry.team>>]

\* all orders in which list(a_set) may come out
ListsOf(S) ==
    {q \in [1..Cardinality(S) -> S] : \A i, j \in 1..Cardinality(S) : i # j => q[i] # q[j]}

\* the patterns loop: one (rx, alias, list(teams)) per alias, in dict order,
\* added to each list of patterns built so far; every way list(teams) may
\* be ordered
CompilePattern(lists, item) ==
    IF SplitWords(item[1]) = <<>> THEN lists
    ELSE {Append(ps, [alias |-> item[1], toks |-> SplitWords(item[1]), teams |-> q]) :
             ps \in lists, q \in ListsOf(item[2])}

\* load_dictionaries(droot): every (team_to_league, patterns) it may return
load_dictionaries(droot) ==
    LET entries == Entries(droot)
        team_to_league == FoldLeft(LAMBDA d, e : DictSet(d, e.team, e.league), <<>>, entries)
        alias_to_teams ==
            FoldLeft(LAMBDA d, w : AddTeam(d, w[1], w[2]), <<>>,
                     Flatten([i \in 1..Len(entries) |-> NormAliases(entries[i])]))
    IN {[team_to_league |-> team_to_league, patterns |-> ps] :
           ps \in FoldLeft(CompilePattern, {<<>>}, alias_to_teams)}

RECURSIVE MatchToks(_, _, _)
\* the end (exclusive) of a match of tok1\s+tok2... at index i of U, 0 if none
MatchToks(U, i, toks) ==
    IF ~StartsAt(U, i, Head(toks)) THEN 0
    ELSE LET e == i + Len(Head(toks))
         IN IF Len(toks) = 1 THEN e
            ELSE IF e > Len(U) \/ ~IsSpace(Ch(U, e)) THEN 0
            ELSE MatchToks(U, Len(U) + 1 - Len(LStrip(SubSeq(U, e, Len(U)))), Tail(toks))

\* the 0-based starts of the matches of
\* (?i)(?<![A-Za-z])tok1\s+tok2...(?![A-Za-z]) in U
TokMatchStarts(U, toks) ==
    {i - 1 : i \in {j \in 1..Len(U) :
        /\ (j = 1 \/ ~IsLetter(Ch(U, j - 1)))
        /\ LET e == MatchToks(U, j, toks)
           IN e > 0 /\ (e > Len(U) \/ ~IsLetter(Ch(U, e)))}}

Min(S) == CHOOSE x \in S : \A y \in S : x <= y

\* the elements of a set of numbers, ascending
Ascending(S) ==
    [r \in 1..Cardinality(S) |-> CHOOSE x \in S : Cardinality({y \in S : y < x}) = r - 1]

\* the hits of one pattern: for m in rx.finditer(U): for t in teams: ...
PatternHits(U, pattern, team_to_league) ==
    LET starts == Ascending(TokMatchStarts(U, pattern.toks))
    IN Flatten([m \in 1..Len(starts) |->
                   [j \in 1..Len(pattern.teams) |->
                       [team |-> pattern.teams[j],
                        league |-> DictGet(team_to_league, pattern.teams[j]),
                        pos |-> starts[m]]]])

\* every hit kept as a team of its own
EarliestEveryHit(earliest, hit) ==
    Append(earliest, <<hit.team, <<hit.league, hit.pos>>>>)

\* if t not in earliest or pos < earliest[t][1]: earliest[t] = (lg, pos)
Earliest(earliest, hit) ==
    IF DictHas(earliest, hit.team) /\ ~(hit.pos < DictGet(earliest, hit.team)[2]) THEN earliest
    ELSE DictSet(earliest, hit.team, <<hit.league, hit.pos>>)

\* ingest_twitter_csv.detect_teams: [team, league, pos], left to right
detect_teams(text, patterns, team_to_league) ==
    LET U == Upper(text)
        hits == Flatten([k \in 1..Len(patterns) |-> PatternHits(U, patterns[k], team_to_league)])
        earliest == FoldLeft(Earliest, <<>>, hits)
    IN SortByKeys([i \in 1..Len(earliest) |->
                      [team |-> earliest[i][1], league |-> earliest[i][2][1],
                       pos |-> earliest[i][2][2]]],
                  [i \in 1..Len(earliest) |-> earliest[i][2][2]])

NoPair == [ok |-> FALSE, t1 |-> "", t2 |-> "", league |-> "", method |-> ""]

\* by_league[lg] as choose_pair_from_hits builds it: (team, pos) in hits order
OfLeague(hits, lg) == SelectSeq(hits, LAMBDA h : h.league = lg)

\* the keys of by_league, in insertion order
LeagueOrder(hits) ==
    LET first == {i \in 1..Len(hits) : \A j \in 1..(i - 1) : hits[j].league # hits[i].league}
    IN [k \in 1..Cardinality(first) |->
           hits[CHOOSE i \in first : Cardinality({j \in first : j < i}) = k - 1].league]

\* sorted(by_league[lg], key=lambda x: x[1])
ByPos(arr) == SortByKeys(arr, [i \in 1..Len(arr) |-> arr[i].pos])

\* second_pos(lg)
second_pos(hits, lg) ==
    IF Len(OfLeague(hits, lg)) >= 2 THEN ByPos(OfLeague(hits, lg))[2].pos ELSE 1000000000

\* the first element of seq with the greatest (sign = 1) or least (sign = -1)
\* key: max(..., key=) and min(..., key=)
FirstBest(seq, keys, sign) ==
    seq[CHOOSE i \in 1..Len(seq) :
           /\ \A j \in 1..Len(seq) : sign * keys[j] <= sign * keys[i]
           /\ \A j \in 1..(i - 1) : keys[j] # keys[i]]

PairOf(arr, lg, method) ==
    [ok |-> TRUE, t1 |-> arr[1].team, t2 |-> arr[2].team, league |-> lg, method |-> method]

\* the dominant-league branch of choose_pair_from_hits
DominantPair(hits) ==
    LET lgs == LeagueOrder(hits)
        counts == [k \in 1..Len(lgs) |-> Len(OfLeague(hits, lgs[k]))]
        dominant0 == FirstBest(lgs, counts, 1)
        tied == SelectSeq(lgs, LAMBDA lg : Len(OfLeague(hits, lg)) = Len(OfLeague(hits, dominant0)))
        dominant == IF Len(tied) > 1
                    THEN FirstBest(tied, [k \in 1..Len(tied) |-> second_pos(hits, tied[k])], -1)
                    ELSE dominant0
    IN IF Len(OfLeague(hits, dominant)) >= 2
       THEN PairOf(ByPos(OfLeague(hits, dominant)), dominant, "DOMINANT_LEAGUE")
       ELSE NoPair

\* choose_pair_from_hits without its league_hint branch
choose_pair_hint_ignored(hits, league_hint) ==
    IF Len(hits) < 2 THEN NoPair ELSE DominantPair(hits)

\* choose_pair_from_hits(hits, league_hint); league_hint "" is None
choose_pair_from_hits(hits, league_hint) ==
    IF Len(hits) < 2 THEN NoPair
    ELSE IF league_hint # "" /\ Len(OfLeague(hits, league_hint)) >= 2
    THEN PairOf(ByPos(OfLeague(hits, league_hint)), league_hint, "HINT_DOMINANT")
    ELSE DominantPair(hits)

\* the row the loop keeps under --keep-mixed for a text without a pair
MixedRow(text) ==
    [league |-> "MIXED", sport |-> "MIXED", team1 |-> "", team2 |-> "",
     source |-> "TWITTER", text |-> text, resolution |-> "NO_PAIR"]

-----------------------------------------------------------------------------
(* scripts/analyze_twitter_text.py                                         *)

\* load_dicts.add_alias(alias, team)
add_alias(alias_to_team, alias, team) ==
    LET a == Upper(Strip(alias))
    IN IF a # "" /\ ~DictHas(alias_to_team, a) THEN Append(alias_to_team, <<a, team>>)
       ELSE alias_to_team

\* load_dicts.seed_aliases(team)
seed_aliases(team) ==
    LET parts == SplitWords(team)
    IN IF Len(parts) >= 2
       THEN <<team, JoinWords(SubSeq(parts, 1, Len(parts) - 1), " "), parts[Len(parts)]>>
       ELSE <<team>>

\* for a in seed_aliases(team): add_alias(a, team); for a in aliases: ...
SeedWrites(entry) ==
    LET names == seed_aliases(entry.team) \o entry.aliases
    IN [j \in 1..Len(names) |-> <<names[j], entry.team>>]

\* team_set after the files are read
team_set(droot) ==
    UNION {{droot[k].data[i][1] : i \in 1..Len(droot[k].data)} :
              k \in {j \in 1..Len(DictFiles) : droot[j].isfile}}

extras ==
    << <<"DAL", "Dallas Cowboys">>, <<"BUF", "Buffalo Bills">>, <<"KC", "Kansas City Chiefs">>,
       <<"TB", "Tampa Bay Buccaneers">>, <<"RAYS", "Tampa Bay Rays">>,
       <<"LIGHTNING", "Tampa Bay Lightning">>, <<"RANGERS", "Texas Rangers">>,
       <<"KINGS", "Los Angeles Kings">>, <<"LAKERS", "Los Angeles Lakers">>,
       <<"CLIPPERS", "LA Clippers">>, <<"RAMS", "Los Angeles Rams">>,
       <<"CHARGERS", "Los Angeles Chargers">>, <<"SEAHAWKS", "Seattle Seahawks">>,
       <<"MARINERS", "Seattle Mariners">>, <<"WARRIORS", "Golden State Warriors">>,
       <<"ORIOLES", "Baltimore Orioles">>, <<"ASTROS", "Houston Astros">>,
       <<"PIRATES", "Pittsburgh Pirates">> >>

\* load_dicts(droot): ALIAS_TO and the aliases of ALIAS_PATTERNS, longest
\* first; the extras whose team is in team_set are added after the files
load_dicts(droot) ==
    LET entries == Entries(droot)
        teams == team_set(droot)
        writes == Flatten([i \in 1..Len(entries) |-> SeedWrites(entries[i])])
                     \o SelectSeq(extras, LAMBDA x : x[2] \in teams)
        alias_to_team == FoldLeft(LAMBDA d, w : add_alias(d, w[1], w[2]), <<>>, writes)
    IN [ALIAS_TO |-> alias_to_team,
        ALIAS_PATTERNS |->
           SortByKeys([i \in 1..Len(alias_to_team) |-> alias_to_team[i][1]],
                      [i \in 1..Len(alias_to_team) |-> 0 - Len(alias_to_team[i][1])])]

IsAlnum(c) == IsLetter(c) \/ IsDigit(c)

\* the starts of the matches of (?<![A-Z0-9])alias(?![A-Z0-9]), re.I, in T
AliasStarts(T, alias) ==
    {i \in 1..Len(T) :
        /\ StartsAt(T, i, alias)
        /\ (i = 1 \/ ~IsAlnum(Ch(T, i - 1)))
        /\ (i + Len(alias) > Len(T) \/ ~IsAlnum(Ch(T, i + Len(alias))))}

\* rx.search(T)
AliasSearch(T, alias) == AliasStarts(T, alias) # {}

RECURSIVE Dedup(_)
\* dedup preserve order
Dedup(seq) ==
    IF seq = <<>> THEN <<>>
    ELSE LET init == Dedup(SubSeq(seq, 1, Len(seq) - 1))
             x == seq[Len(seq)]
         IN IF \E i \in 1..Len(init) : init[i] = x THEN init ELSE Append(init, x)

\* analyze_twitter_text.detect_teams(text)
analyze_detect_teams(text, dicts) ==
    LET T == Upper(text)
        found == SelectSeq(dicts.ALIAS_PATTERNS, LAMBDA alias : AliasSearch(T, alias))
    IN Dedup([i \in 1..Len(found) |-> DictGet(dicts.ALIAS_TO, found[i])])

\* \b in front of index i of T (i = Len(T) + 1: at the end of T)
WordBoundary(T, i) ==
    (i > 1 /\ IsWordChar(Ch(T, i - 1))) # (i <= Len(T) /\ IsWordChar(Ch(T, i)))

\* where \s* started at index i of T stops
SkipSpaces(T, i) == Len(T) + 1 - Len(LStrip(SubSeq(T, i, Len(T))))

\* re.search(r"\btok1\s+tok2...\b", T)
SearchWords(T, toks) ==
    \E i \in 1..Len(T) :
        /\ WordBoundary(T, i)
        /\ LET e == MatchToks(T, i, toks) IN e > 0 /\ WordBoundary(T, e)

\* re.search(r"\bhead\s*(?:tail1|tail2|...)\b", T)
SearchJoined(T, head, tails) ==
    \E i \in 1..Len(T) :
        /\ WordBoundary(T, i)
        /\ StartsAt(T, i, head)
        /\ LET j == SkipSpaces(T, i + Len(head))
           IN \E w \in tails : StartsAt(T, j, w) /\ WordBoundary(T, j + Len(w))

\* HIGH.search(text): HIGH = re.compile("|".join(HIGH_RX), re.I)
HIGH(text) ==
    LET T == Lower(text)
    IN \/ SearchWords(T, <<"most", "bet">>)
       \/ SearchWords(T, <<"most", "wagered">>)
       \/ \E i \in 1..Len(T) :          \* \btop\s*(?:\d+|five|ten|3|5|10)\b
             /\ WordBoundary(T, i)
             /\ StartsAt(T, i, "top")
             /\ LET j == SkipSpaces(T, i + 3)
                IN \E k \in (j + 1)..(Len(T) + 1) :
                      /\ \A x \in j..(k - 1) : IsDigit(Ch(T, x))
                      /\ WordBoundary(T, k)
       \/ SearchJoined(T, "top", {"five", "ten"})
       \/ \E w \in {"handle", "ticket", "tickets", "consensus", "public",
                    "steam", "steamed", "movement"} : SearchWords(T, <<w>>)
       \/ SearchJoined(T, "line", {"move", "moved"})
       \/ \E i \in 1..Len(T) :          \* \b%(\s|$)
             /\ Ch(T, i) = "%"
             /\ WordBoundary(T, i)
             /\ (i = Len(T) \/ IsSpace(Ch(T, i + 1)))
       \/ \E i \in 1..Len(T) :          \* \d{1,3}\s*%
             /\ IsDigit(Ch(T, i))
             /\ LET j == SkipSpaces(T, i + 1) IN j <= Len(T) /\ Ch(T, j) = "%"

\* MED.search(text): MED = re.compile("|".join(MED_RX), re.I)
MED(text) ==
    LET T == Lower(text)
    IN \/ \E w \in {"sharp", "pros", "square", "fade", "heavy", "popular"} :
             SearchWords(T, <<w>>)
       \/ SearchWords(T, <<"public", "side">>)

\* MED.search before HIGH.search
grade_signal_med_first(text) ==
    IF MED(text) THEN "MED" ELSE IF HIGH(text) THEN "HIGH" ELSE "LOW"

grade_signal(text) ==
    IF HIGH(text) THEN "HIGH" ELSE IF MED(text) THEN "MED" ELSE "LOW"

-----------------------------------------------------------------------------
(* The inputs of the resolvers                                             *)

MaxTweets == 2    \* rows of tweets.csv one analyze run reads

\* a file of the dictionaries folder: os.path.isfile, whether json.load
\* parses it, and the object it holds
NoFile == [isfile |-> FALSE, json |-> FALSE, data |-> <<>>]
JsonFile(data) == [isfile |-> TRUE, json |-> TRUE, data |-> data]
Malformed == [isfile |-> TRUE, json |-> FALSE, data |-> <<>>]

NflJson == << <<"New York Giants", <<"Giants", "NYG">>>>,
              <<"Arizona Cardinals", <<"Cardinals">>>>,
              <<"Kansas City Chiefs", <<"Chiefs", "KC">>>> >>
MlbJson == << <<"San Francisco Giants", <<"Giants">>>>,
              <<"St Louis Cardinals", <<"Cardinals">>>>,
              <<"Texas Rangers", <<"Rangers">>>> >>
NbaJson == << <<"Sacramento Kings", <<"Kings">>>> >>
NhlJson == << <<"Los Angeles Kings", <<"Kings", "LA Kings">>>>,
              <<"New York Rangers", <<"Rangers", "NY  Rangers">>>> >>

\* the dictionaries folders: any of the four league files may be missing
Folders ==
    {<<nfl, mlb, nba, nhl, NoFile>> :
        nfl \in {NoFile, JsonFile(NflJson)}, mlb \in {NoFile, JsonFile(MlbJson)},
        nba \in {NoFile, JsonFile(NbaJson)}, nhl \in {NoFile, JsonFile(NhlJson)}}

NoFolder == <<NoFile, NoFile, NoFile, NoFile, NoFile>>

\* a team dictionary in which two teams offer the same alias
SharedAliasDictionary ==
    << <<"NYG", <<"Giants", "New York Giants">>>>,
       <<"SF", <<"Giants", "San Francisco Giants">>>> >>

\* a dictionaries folder with a file that is not JSON beside a good one
BrokenFolder == <<JsonFile(NflJson), Malformed, NoFile, NoFile, NoFile>>

\* the files on disk: <<dictionaries folder, team_dictionary.json, its state>>
Configurations ==
    {<<d, TeamDictionary, "json">> : d \in Folders \cup {BrokenFolder}}
    \cup {<<NoFolder, SharedAliasDictionary, "json">>}
    \cup {<<JsonFile(NflJson), NoFile, NoFile, NoFile, NoFile>>} \X {<<>>} \X {"missing", "malformed"}

Texts ==
    {"Giants at Cardinals", "chiefs vs New York Giants", "Kings Rangers Chiefs Giants",
     "Giants Cardinals Rangers Kings", "Chiefs NYG  rangers", "Rangers beat Giants, Giants",
     "KC cover", "Lakers by 7", "Mischiefs 2KC",
     "Sharp fade: 80% handle", "fade the Giants", "Chiefs steamed"}

Hints == {"", "nfl", " MLB", "NHL"}

Unloaded == [loaded |-> FALSE, team_to_league |-> <<>>, patterns |-> <<>>]
NoCall == [made |-> FALSE, text |-> "", league_hint |-> "", hits |-> <<>>, res |-> NoPair]
NotRun == [ran |-> FALSE, csv |-> <<>>, keep_mixed |-> FALSE, rc |-> 0, out |-> Absent]
NoDicts == [loaded |-> FALSE, ALIAS_TO |-> <<>>, ALIAS_PATTERNS |-> <<>>]

\* away_team / home_team cells of splits.csv as OCR leaves them
TeamTexts ==
    {"Chiefs", "rs Kansas City Chiefs", "Buffalo Bills -3.5", "Mischiefs", "NY Giants at SF",
     "Playbills tonight", "Raiders", ""}
NoTeamCall == [made |-> FALSE, txt |-> "", team |-> "None"]

-----------------------------------------------------------------------------
(* The resolvers                                                           *)

\* json.load(open(p)) of the loaders of the dictionaries folder, reached for
\* each file that os.path.isfile finds: it raises on a file that is not
\* JSON, and no loader catches it
JsonLoadRaises(droot) ==
    \E k \in 1..Len(DictFiles) : droot[k].isfile /\ ~droot[k].json

\* team_to_league, patterns = load_dictionaries(args.dict)
LoadDictionaries ==
    /\ rpc = "idle"
    /\ IF JsonLoadRaises(dictionaries)
       THEN rpc' = "failed" /\ UNCHANGED ing
       ELSE /\ \E d \in load_dictionaries(dictionaries) :
                  ing' = [loaded |-> TRUE, team_to_league |-> d.team_to_league,
                          patterns |-> d.patterns]
            /\ rpc' = "ingest"
    /\ UNCHANGED <<dictionaries, tdict, tfile, call, irun, ana, arows, aout, guard_aliases, gcall, pvars, ovars>>

\* league_hint = r["league_hint"].strip().upper() or None;
\* hits = detect_teams(...); res = choose_pair_from_hits(hits, league_hint)
ResolveTweet ==
    /\ rpc = "ingest"
    /\ ~call.made
    /\ \E text \in Texts, hint \in Hints :
          \E hits \in {detect_teams(text, ing.patterns, ing.team_to_league)} :
             call' = [made |-> TRUE, text |-> text, league_hint |-> Upper(Strip(hint)),
                      hits |-> hits,
                      res |-> choose_pair_from_hits(hits, Upper(Strip(hint)))]
    /\ UNCHANGED <<dictionaries, tdict, tfile, rpc, ing, irun, ana, arows, aout, guard_aliases, gcall, pvars, ovars>>

\* python3 ingest_twitter_csv.py --csv ... --dict ... --out ... [--keep-mixed]:
\* main ends with the loop that adds the missing columns; the statements from
\* "if (df.get("text","") == "").all():" on (the row loop and the write of
\* --out among them) are at module level, so they run when the module is
\* loaded, before main() is called, where df is unbound: NameError, exit
\* status 1, nothing written.
IngestScript ==
    /\ rpc = "idle"
    /\ \E text \in Texts, hint \in Hints, keep_mixed \in BOOLEAN :
          irun' = [ran |-> TRUE, csv |-> <<[text |-> text, league_hint |-> hint]>>,
                   keep_mixed |-> keep_mixed, rc |-> 1, out |-> Absent]
    /\ rpc' = "done"
    /\ UNCHANGED <<dictionaries, tdict, tfile, ing, call, ana, arows, aout, guard_aliases, gcall, pvars, ovars>>

\* ALIAS_TO, ALIAS_PATTERNS = load_dicts(args.dict)
LoadDicts ==
    /\ rpc = "idle"
    /\ IF JsonLoadRaises(dictionaries)
       THEN rpc' = "failed" /\ UNCHANGED <<ana, arows>>
       ELSE /\ \E d \in {load_dicts(dictionaries)} :
                  ana' = [loaded |-> TRUE, ALIAS_TO |-> d.ALIAS_TO,
                          ALIAS_PATTERNS |-> d.ALIAS_PATTERNS]
            /\ arows' = <<>>
            /\ rpc' = "analyze"
    /\ UNCHANGED <<dictionaries, tdict, tfile, ing, call, irun, aout, guard_aliases, gcall, pvars, ovars>>

\* one turn of the run loop of analyze_twitter_text.py: the text, teams and
\* signal_strength columns of the row it appends
AnalyzeRow ==
    /\ rpc = "analyze"
    /\ Len(arows) < MaxTweets
    /\ \E txt \in Texts :
          arows' = Append(arows, [text |-> txt, teams |-> analyze_detect_teams(txt, ana),
                                  signal_strength |-> grade_signal(txt)])
    /\ UNCHANGED <<dictionaries, tdict, tfile, rpc, ing, call, irun, ana, aout, guard_aliases, gcall, pvars, ovars>>

\* out.to_csv(args.out, index=False), and the process ends
AnalyzeWrite ==
    /\ rpc = "analyze"
    /\ aout' = [exists |-> TRUE,
                lines |-> [i \in 1..Len(arows) |->
                              <<arows[i].text, JoinWords(arows[i].teams, " | ")>>]]
    /\ rpc' = "done"
    /\ UNCHANGED <<dictionaries, tdict, tfile, ing, call, irun, ana, arows, guard_aliases, gcall, pvars, ovars>>

\* alias_map, league_map = load_aliases(args.teams): json.load(open(path))
\* is the first statement, so a file that is missing or is not JSON raises
LoadAliases ==
    /\ rpc = "idle"
    /\ IF tfile # "json"
       THEN rpc' = "failed" /\ UNCHANGED guard_aliases
       ELSE /\ guard_aliases' = load_aliases(tdict)
            /\ rpc' = "guard"
    /\ UNCHANGED <<dictionaries, tdict, tfile, ing, call, irun, ana, arows, aout, gcall, pvars, ovars>>

\* df["away_team"].apply(lambda s: resolve_team(s, alias_map)) on one cell
ResolveTeam ==
    /\ rpc = "guard"
    /\ ~gcall.made
    /\ \E txt \in TeamTexts :
          gcall' = [made |-> TRUE, txt |-> txt, team |-> resolve_team(txt, guard_aliases)]
    /\ UNCHANGED <<dictionaries, tdict, tfile, rpc, ing, call, irun, ana, arows, aout, guard_aliases, pvars, ovars>>

-----------------------------------------------------------------------------
(* The dedup steps: live_delta_analysis.load_frame, splits_ocr.parse_blocks, *)
(* normalize_and_merge.main                                                 *)

MaxObs == 3    \* rows a dedup step is given

\* a dedupe that drops only the first row repeating an earlier key
drop_first_duplicate(rows, subset) ==
    LET dup == {i \in 1..Len(rows) : \E j \in 1..(i - 1) : subset[j] = subset[i]}
    IN IF dup = {} THEN rows
       ELSE SubSeq(rows, 1, Min(dup) - 1) \o SubSeq(rows, Min(dup) + 1, Len(rows))

\* DataFrame.drop_duplicates(subset=...), subset given as the key of each
\* row: the first row of each key stays
drop_duplicates(rows, subset) ==
    LET keep == {i \in 1..Len(rows) : \A j \in 1..(i - 1) : subset[j] # subset[i]}
        order == Ascending(keep)
    IN [r \in 1..Len(order) |-> rows[order[r]]]

\* load_frame after _read_csv(SPLITS): rows is the frame read from splits.csv
\* (an empty one falls back to boardroom_inputs.csv, taken as missing)
load_frame(rows) ==
    drop_duplicates(rows, [i \in 1..Len(rows) |->
                              <<rows[i].league, rows[i].away_team, rows[i].home_team,
                                rows[i].market, rows[i].source, rows[i].line,
                                rows[i].tickets_pct, rows[i].handle_pct>>])

\* normalize_and_merge.main.key(r)
key(r) ==
    JoinWords(<<Lower(r.league), Lower(r.home_team), Lower(r.away_team),
                Lower(r.filename), Lower(r.image_id)>>, "|")

\* "Combine & dedupe" of normalize_and_merge.main: stage after the dedupe
combine_dedupe(res_tbl, tw_tbl) ==
    LET stage == res_tbl \o tw_tbl
    IN IF Len(stage) > 0
       THEN drop_duplicates(stage, [i \in 1..Len(stage) |-> key(stage[i])])
       ELSE stage

\* rows of splits.csv: one observation and rows that differ from it in the
\* timestamp only, or in exactly one other field
ObsRows ==
    LET b == OcrRow("t1", "NFL", "Bills", "Chiefs", "ML", "55", "60", "-110", "MGM_FAM")
    IN {b, [b EXCEPT !.timestamp = "t2"], [b EXCEPT !.league = "NCAAF"],
        [b EXCEPT !.away_team = "Jets"], [b EXCEPT !.home_team = "Jets"],
        [b EXCEPT !.market = "Spread"], [b EXCEPT !.tickets_pct = "56"],
        [b EXCEPT !.handle_pct = "61"], [b EXCEPT !.line = "-120"],
        [b EXCEPT !.source = "GRID_OCR"]}

\* a row of to_splits_from_resolver / to_splits_from_twitter (the columns
\* of SPLITS_COLS that are not constant over all rows, and those of the
\* identity tuple)
StageRow(league, away, home, source, filename, image_id) ==
    [league |-> league, away_team |-> away, home_team |-> home, source |-> source,
     market |-> "UNKNOWN", line |-> "", bets_pct |-> "", handle_pct |-> "",
     filename |-> filename, image_id |-> image_id]

\* df.get(col, default) on a row of the frame
Get(r, col, default) == IF col \in DOMAIN r THEN r[col] ELSE default

NotMixed(r) == r.pair_league # "MIXED"

\* to_splits_from_resolver(df, label): the table (n is its length); df is
\* the sequence of the rows of the frame, None or an empty one is <<>>
to_splits_from_resolver(df, label) ==
    IF Len(df) = 0 THEN <<>>
    ELSE LET cols == DOMAIN df[1]
             kept == IF "pair_league" \in cols THEN SelectSeq(df, NotMixed) ELSE df
             v2 == {"away_team", "home_team"} \subseteq cols
         IN [i \in 1..Len(kept) |->
               LET r == kept[i]
               IN StageRow(Get(r, "pair_league", Get(r, "league", "")),
                           IF v2 THEN r.away_team ELSE Get(r, "team1", ""),
                           IF v2 THEN r.home_team ELSE Get(r, "team2", ""),
                           label, Get(r, "filename_base", ""), Get(r, "image_id", ""))]

NonEmptyLeague(r) == Len(r.league) > 0

\* to_splits_from_twitter(df): good
to_splits_from_twitter(df) ==
    IF Len(df) = 0 THEN <<>>
    ELSE SelectSeq([i \in 1..Len(df) |->
                      StageRow(Get(df[i], "league", ""), Get(df[i], "team1", ""),
                               Get(df[i], "team2", ""), "TWITTER",
                               Get(df[i], "image_url", ""), Get(df[i], "image_id", ""))],
                   NonEmptyLeague)

SameLeagueFill(r) == r.known_league = r.opponent_league /\ r.confidence_pct >= 80

\* main: same_lg after the rename of its columns
same_lg(fills) ==
    LET sel == SelectSeq(fills, SameLeagueFill)
    IN [i \in 1..Len(sel) |->
          [team1 |-> sel[i].known_team, team2 |-> sel[i].inferred_opponent,
           pair_league |-> sel[i].known_league, opponent_league |-> sel[i].opponent_league,
           confidence_pct |-> sel[i].confidence_pct,
           filename_base |-> sel[i].filename_base, image_id |-> sel[i].image_id]]

\* main: res_tbl, the resolver table and the promoted fills after it
res_table(resolver, fills) ==
    to_splits_from_resolver(resolver, "RESOLVER_V2")
        \o (IF Len(fills) > 0 /\ Len(same_lg(fills)) > 0
            THEN to_splits_from_resolver(same_lg(fills), "OPPONENT_FILL") ELSE <<>>)

\* rows of resolved_games_final_v2.csv
ResolverRow(pair_league, away, home, filename_base, image_id) ==
    [pair_league |-> pair_league, away_team |-> away, home_team |-> home,
     filename_base |-> filename_base, image_id |-> image_id]

ResRows ==
    {ResolverRow("NFL", "Bills", "Chiefs", "", ""),
     ResolverRow("NFL", "Bills", "Chiefs", "shot1", "img1"),
     ResolverRow("NFL", "Bills", "Chiefs", "shot2", "img2"),
     ResolverRow("MIXED", "Bills", "Yankees", "shot3", "img3")}

\* rows of opponent_filled.csv
FillRows ==
    {[known_team |-> "Jets", inferred_opponent |-> "Chiefs", known_league |-> "NFL",
      opponent_league |-> lg, confidence_pct |-> 90, filename_base |-> "shot1",
      image_id |-> "img1"] : lg \in {"NFL", "MLB"}}

\* a row of twitter_resolved.csv: the columns to_splits_from_twitter reads
\* of a row that the loop of ingest_twitter_csv appends
TwitterCsvRow(row) ==
    [league |-> row.league, sport |-> row.sport, team1 |-> row.team1,
     team2 |-> row.team2, image_id |-> "", image_url |-> ""]

TwRows ==
    {TwitterCsvRow([league |-> "NFL", sport |-> "NFL", team1 |-> "Bills", team2 |-> "Chiefs"]),
     TwitterCsvRow([league |-> "NFL", sport |-> "NFL", team1 |-> "Chiefs", team2 |-> "Bills"]),
     TwitterCsvRow(MixedRow("Chiefs Yankees"))}

NoTables == [resolver |-> <<>>, fills |-> <<>>, twitter |-> <<>>,
             res_tbl |-> <<>>, tw_tbl |-> <<>>]

NoMerge == [by |-> "", x |-> <<>>, out |-> <<>>, twice |-> FALSE]

\* df = load_frame()
LoadFrame ==
    /\ merged = NoMerge
    /\ merged' = [by |-> "load_frame", x |-> obs, out |-> load_frame(obs), twice |-> FALSE]
    /\ UNCHANGED <<obs, tables, pvars, rvars, bvars, svars>>

\* load_frame on a splits.csv that holds the frame it returned
LoadFrameAgain ==
    /\ merged.by = "load_frame" /\ ~merged.twice
    /\ merged' = [merged EXCEPT !.x = merged.out, !.out = load_frame(merged.out),
                                !.twice = TRUE]
    /\ UNCHANGED <<obs, tables, pvars, rvars, bvars, svars>>

\* the clean + dedup loop of parse_blocks on the rows of one parse (one
\* league, one source, one timestamp)
ParseBlocksDedup ==
    /\ merged = NoMerge
    /\ \A i \in 1..Len(obs) :
          /\ obs[i].league = obs[1].league
          /\ obs[i].source = obs[1].source
          /\ obs[i].timestamp = obs[1].timestamp
    /\ merged' = [by |-> "parse_blocks", x |-> obs, out |-> CleanDedup(obs, {}),
                  twice |-> FALSE]
    /\ UNCHANGED <<obs, tables, pvars, rvars, bvars, svars>>

\* main: the three tables read, res_tbl and tw_tbl built from them,
\* stage = pd.concat([res_tbl, tw_tbl]) and the dedupe on _k
NormalizeMerge ==
    /\ merged = NoMerge
    /\ \E res_tbl \in {res_table(tables.resolver, tables.fills)},
          tw_tbl \in {to_splits_from_twitter(tables.twitter)} :
          /\ tables' = [tables EXCEPT !.res_tbl = res_tbl, !.tw_tbl = tw_tbl]
          /\ merged' = [by |-> "normalize_and_merge", x |-> res_tbl \o tw_tbl,
                        out |-> combine_dedupe(res_tbl, tw_tbl), twice |-> FALSE]
    /\ UNCHANGED <<obs, pvars, rvars, bvars, svars>>

\* the same step on its own stage, with nothing new to add
NormalizeMergeAgain ==
    /\ merged.by = "normalize_and_merge" /\ ~merged.twice
    /\ merged' = [merged EXCEPT !.x = merged.out, !.out = combine_dedupe(merged.out, <<>>),
                                !.twice = TRUE]
    /\ UNCHANGED <<obs, tables, pvars, rvars, bvars, svars>>

-----------------------------------------------------------------------------
(* scripts/boardroom_picks.py and the two boardroom renderers,              *)
(* scripts/boardroom_render.py and scripts/scripts/boardroom_render.py      *)
(*                                                                          *)
(* A float that is summed, rounded or compared with a threshold is an       *)
(* integer count of millionths, NaN apart. A decay weight is kept as        *)
(* [m, e], the nine leading digits and the decimal exponent of the float64  *)
(* math.exp returns (m * 10^(e - 8)), so that weights too small for         *)
(* millionths are still told apart, and the float64 zero is [m = 0].        *)
(* Timestamps are whole hours.                                              *)

MaxSignals == 2    \* rows of the signals file
MaxRenders == 2    \* runs of the renderer in succession

\* float("nan")
NaN == -1

\* a + b
FAdd(a, b) == IF a = NaN \/ b = NaN THEN NaN ELSE a + b

\* max(a, b): b when b > a, else a; a comparison with nan is False
PyMax(a, b) == IF a # NaN /\ b # NaN /\ b > a THEN b ELSE a

\* a >= b
GE(a, b) == a # NaN /\ b # NaN /\ a >= b

\* round(x, 2)
Round2(x) ==
    IF x = NaN THEN NaN
    ELSE LET q == x \div 10000
             r == x % 10000
         IN 10000 * (IF r > 5000 \/ (r = 5000 /\ q % 2 = 1) THEN q + 1 ELSE q)

RECURSIVE Pow10(_)
Pow10(k) == IF k = 0 THEN 1 ELSE 10 * Pow10(k - 1)

\* the millionths of a weight [m, e] that is at most 1
Micro(w) ==
    IF w.m < 0 THEN NaN
    ELSE IF 2 - w.e > 9 THEN 0
    ELSE (w.m + Pow10(2 - w.e) \div 2) \div Pow10(2 - w.e)

DEFAULT_HOURS == 72
MIN_SIGNALS == 2          \* --min-signals
STAR5 == 6000000          \* --star5, 6.0
STAR4 == 3500000          \* --star4, 3.5
FIVE_STAR_MIN == 6000000  \* boardroom_picks.py, 6.0
FOUR_STAR_MIN == 3500000  \* boardroom_picks.py, 3.5

\* now_utc(), in hours
now_utc == 40000

\* the ages, in hours, of the timestamps of the signals file: inside 6 h,
\* inside 72 h, past the window, three and four years
Ages == {3, 48, 100, 26280, 35040}

\* math.exp(-age / HALF_LIFE_HOURS) in float64, HALF_LIFE_HOURS = 24.0
DecayTable ==
    [a \in Ages |->
        CASE a = 3 -> [m |-> 882496903, e |-> -1]
          [] a = 48 -> [m |-> 135335283, e |-> -1]
          [] a = 100 -> [m |-> 155038536, e |-> -2]
          [] OTHER -> [m |-> 0, e |-> 0]]

Half == [m |-> 500000000, e |-> -1]    \* 0.5
NaNWeight == [m |-> -1, e |-> 0]       \* nan

\* a cell of the timestamp column after astype(str): a date pandas parses,
\* "nan" (the cell was empty), or text that is no date
IsoCell(h) == [kind |-> "iso", at |-> h]
NanCell == [kind |-> "nan", at |-> 0]
TextCell == [kind |-> "text", at |-> 0]

\* what parse_time returns: a datetime, NaT or None
Datetime(h) == [kind |-> "datetime", at |-> h]
NaT == [kind |-> "NaT", at |-> 0]
NoneTs == [kind |-> "None", at |-> 0]

\* the two files of the renderer
BoardVariants == {"scripts/boardroom_render.py", "scripts/scripts/boardroom_render.py"}
Nested(variant) == variant = "scripts/scripts/boardroom_render.py"

\* parse_time(x). scripts/: pd.to_datetime(str(x), utc=True, errors="coerce")
\* is NaT for "nan" and for text, and NaT.to_pydatetime() is NaT.
\* scripts/scripts/: pd.to_datetime(s, utc=True) is NaT for "nan" and raises
\* for text, which the except turns into None
parse_time(variant, x) ==
    IF x.kind = "iso" THEN Datetime(x.at)
    ELSE IF Nested(variant) /\ x.kind = "text" THEN NoneTs
    ELSE NaT

\* sub["_ts"] = sub["timestamp"].apply(parse_time): a column with a datetime
\* or a NaT in it becomes datetime64 and holds NaT for None
to_series(vals) ==
    IF \E i \in 1..Len(vals) : vals[i] # NoneTs
    THEN [i \in 1..Len(vals) |-> IF vals[i] = NoneTs THEN NaT ELSE vals[i]]
    ELSE vals

\* 0.5 for every timestamp
exp_decay_weight_flat(ts, clock) == Half

\* exp_decay_weight(ts, now): now - NaT is NaT, NaT.total_seconds() is nan
exp_decay_weight(ts, clock) ==
    IF ts = NoneTs THEN Half
    ELSE IF ts = NaT THEN NaNWeight
    ELSE DecayTable[clock - ts.at]

\* how many of the timestamps ts are datetimes with now - ts <= hours
Within(ts, clock, hours) ==
    Cardinality({i \in 1..Len(ts) : ts[i].kind = "datetime" /\ clock - ts[i].at <= hours})

\* dec += w over the weights
DecayedSum(w) == FoldLeft(LAMBDA d, x : FAdd(d, Micro(x)), 0, w)

\* the loop of trend_counts over sub, whose parsed timestamps are ts
TrendLoop(variant, sub, ts, clock) ==
    [n72 |-> IF Nested(variant)
             THEN Within(ts, clock, DEFAULT_HOURS)
                     + Cardinality({i \in 1..Len(ts) : ts[i] = NoneTs})
             ELSE Len(sub),
     n24 |-> Within(ts, clock, 24),
     n6 |-> Within(ts, clock, 6),
     dec |-> DecayedSum([i \in 1..Len(ts) |-> exp_decay_weight(ts[i], clock)]),
     weights |-> [i \in 1..Len(ts) |->
                     [entity |-> sub[i].entity, timestamp |-> sub[i].timestamp,
                      w |-> exp_decay_weight(ts[i], clock)]]]

\* trend_counts(df, entity, now), with the weight of every row it visits
trend_counts(variant, df, entity, clock) ==
    LET sub == SelectSeq(df, LAMBDA r : r.entity = entity)
    IN TrendLoop(variant, sub,
                 to_series([i \in 1..Len(sub) |-> parse_time(variant, sub[i].timestamp)]),
                 clock)

STOP_ENTITIES ==
    {"UNKNOWN", "AND", "FROM", "OPEN", "AT", "IS", "THE", "OF", "TO", "FOR", "WITH", "IN",
     "BY", "ON", "MLB", "NFL", "NBA", "NHL", "CFB", "NCAAF", "NCAAB", "TEAM", "TOTAL",
     "SPREAD", "OVER", "UNDER"}

\* the team dictionary file: missing, the {"aliases": {...}} object that
\* splits_guard_clean reads from the same path, or a map {canon: [alias,
\* ...]} given as the sequence of its items (the list and the nested
\* conference shapes are not drawn)
NoTeams == [kind |-> "missing", data |-> <<>>]
TeamFiles ==
    {NoTeams,
     [kind |-> "aliases", data |-> TeamDictionary],
     [kind |-> "map", data |-> << <<"kc", <<"Chiefs", "Kansas City ">>>>,
                                  <<"BUF", <<"Bills">>>> >>]}

\* load_team_dict.add_alias(key, aliases) on alias_map, a dict of lists
team_add_alias(alias_map, k, aliases) ==
    LET canon == Upper(Strip(k))
        vals == Dedup([i \in 1..Len(aliases) |-> Upper(Strip(aliases[i]))])
        kept == SelectSeq(vals, LAMBDA v : v # "")
        old == IF DictHas(alias_map, canon) THEN DictGet(alias_map, canon) ELSE <<>>
    IN IF canon = "" THEN alias_map
       ELSE DictSet(alias_map, canon,
                    old \o SelectSeq(kept, LAMBDA v : \A i \in 1..Len(old) : old[i] # v))

\* load_team_dict(path). An {"aliases": {...}} object has one value and it
\* is no list, so it is read as nested conferences, whose teams must be
\* objects: nothing is added. For a map, scripts/boardroom_render.py has
\* `return alias_map` inside the for loop, after the first item;
\* scripts/scripts/boardroom_render.py returns after the loop
load_team_dict(variant, file) ==
    IF file.kind # "map" THEN <<>>
    ELSE LET items == IF Nested(variant) \/ file.data = <<>> THEN file.data
                      ELSE <<file.data[1]>>
         IN FoldLeft(LAMBDA m, it : team_add_alias(m, it[1], <<it[1]>> \o it[2]), <<>>, items)

\* compile_alias_index(team_map): (canon, aliases of the pattern); the
\* nested file sorts by -len(canon)
compile_alias_index(variant, team_map) ==
    LET idx == SelectSeq(team_map, LAMBDA it : it[2] # <<>>)
    IN IF Nested(variant)
       THEN SortByKeys(idx, [i \in 1..Len(idx) |-> 0 - Len(idx[i][1])])
       ELSE idx

\* rex.search(t) for rex = \b(?:a1|a2|...)\b, re.I
RexSearch(aliases, t) ==
    LET T == Upper(t)
    IN \E k \in 1..Len(aliases), i \in 1..Len(T) :
          /\ StartsAt(T, i, aliases[k])
          /\ WordBoundary(T, i)
          /\ WordBoundary(T, i + Len(aliases[k]))

\* resolve_entity(raw, text, alias_index); "" for None
resolve_entity(raw, text, alias_index) ==
    LET R == Upper(Strip(raw))
        found == {k \in 1..Len(alias_index) : RexSearch(alias_index[k][2], text)}
    IN IF raw = "" \/ R \in STOP_ENTITIES THEN ""
       ELSE IF alias_index # <<>> /\ DictHas(alias_index, R) THEN R
       ELSE IF found # {} THEN alias_index[Min(found)][1]
       ELSE IF 2 <= Len(R) /\ Len(R) <= 5 /\ \A i \in 1..Len(R) : IsLetter(Ch(R, i)) THEN R
       ELSE ""

\* lexicographic >
LexGreater(a, b) ==
    \E k \in 1..Len(a) : a[k] > b[k] /\ \A h \in 1..(k - 1) : a[h] = b[h]

\* df.sort_values(by, ascending=[False, ...]) given the key of every row:
\* rows of equal keys keep their order
sort_values(rows, keys) ==
    LET n == Len(rows)
        Rank(i) ==
            Cardinality({j \in 1..n :
                LexGreater(keys[j], keys[i]) \/ (keys[j] = keys[i] /\ j < i)}) + 1
    IN [r \in 1..n |-> rows[CHOOSE i \in 1..n : Rank(i) = r]]

\* a file that is absent, or holds no table
NoTable == [cols |-> "none", rows |-> <<>>]
NoMd == [kind |-> "none", five |-> <<>>, four |-> <<>>]

\* stars(s) of the renderers
stars(s) == IF GE(s, STAR5) THEN "5" ELSE IF GE(s, STAR4) THEN "4" ELSE ""

\* a line of the renderer's markdown
MdLine(r) ==
    [entity |-> r.entity, score |-> r.score, signals |-> r.signals,
     w24 |-> r.w24, w6 |-> r.w6, decayed |-> r.decayed]

\* the lines of the renderer's markdown block of one star rating
Block(out, rating) ==
    LET part == SelectSeq(out, LAMBDA r : r.stars = rating)
    IN [i \in 1..Len(part) |-> MdLine(part[i])]

\* a row of picks: entity resolved; total_score, a column the file of an
\* earlier render lacks, is added as None, and pd.to_numeric(None) is nan
PickRow(variant, cols, r, alias_index) ==
    LET total == IF cols = "rollup" THEN r.total_score ELSE NaN
    IN [entity |-> resolve_entity(r.entity, r.sample_text, alias_index),
        total_score |-> IF Nested(variant) /\ total = NaN THEN 0 ELSE total,
        signals |-> r.signals,
        sample_text |-> r.sample_text]

\* the same loop without resolve_entity and the stop list
CleanPicksUnresolved(variant, picks_file, alias_index) ==
    [i \in 1..Len(picks_file.rows) |->
        [PickRow(variant, picks_file.cols, picks_file.rows[i], alias_index)
            EXCEPT !.entity = Upper(Strip(picks_file.rows[i].entity))]]

\* main(): clean, the rows of picks whose entity resolves and is no stop
\* entity
CleanPicks(variant, picks_file, alias_index) ==
    SelectSeq([i \in 1..Len(picks_file.rows) |->
                  PickRow(variant, picks_file.cols, picks_file.rows[i], alias_index)],
              LAMBDA r : r.entity # "" /\ r.entity \notin STOP_ENTITIES)

\* main(): the rows synthesized from the signals when clean is empty, one
\* for every canon whose pattern is found in the text of a signal
SynthRows(variant, signals, alias_index, clock) ==
    LET Sub(k) == SelectSeq(signals, LAMBDA r : RexSearch(alias_index[k][2], r.text))
        hit == SelectSeq([k \in 1..Len(alias_index) |-> k], LAMBDA k : Sub(k) # <<>>)
    IN [j \in 1..Len(hit) |->
          LET canon == alias_index[hit[j]][1]
              sub == Sub(hit[j])
              t == trend_counts(variant,
                                [i \in 1..Len(sub) |-> [sub[i] EXCEPT !.entity = canon]],
                                canon, clock)
          IN [entity |-> canon, total_score |-> t.dec, signals |-> t.n72,
              sample_text |-> sub[Len(sub)].text]]

\* main(): signals with the entity resolved, the rows without one dropped
ResolvedSignals(signals, alias_index) ==
    SelectSeq([i \in 1..Len(signals) |->
                  [signals[i] EXCEPT !.entity =
                      resolve_entity(signals[i].entity, signals[i].text, alias_index)]],
              LAMBDA r : r.entity # "")

\* main(): the row of one entity of clean, t what trend_counts returned
ScoreRow(r, t) ==
    [entity |-> r.entity,
     score |-> Round2(FAdd(PyMax(r.total_score, t.dec), 0)),
     signals |-> IF t.n72 > r.signals THEN t.n72 ELSE r.signals,
     w72 |-> t.n72, w24 |-> t.n24, w6 |-> t.n6,
     decayed |-> Round2(t.dec), clv_boost |-> 0, stars |-> "",
     sample_text |-> r.sample_text]

\* main(): the two gates
Gates(rows) ==
    SelectSeq(SelectSeq(rows, LAMBDA r : r.signals >= MIN_SIGNALS),
              LAMBDA r : GE(r.score, IF STAR4 < STAR5 THEN STAR4 ELSE STAR5))

\* main(): the sort key of a row
SortKey(variant, r) ==
    <<r.score, r.w6, r.w24, IF Nested(variant) THEN r.w72 ELSE r.signals>>

\* main(): out, from the gates to the stars
Report(variant, rows) ==
    LET gated == Gates(rows)
        sorted == sort_values(gated, [i \in 1..Len(gated) |-> SortKey(variant, gated[i])])
    IN SelectSeq([i \in 1..Len(sorted) |-> [sorted[i] EXCEPT !.stars = stars(sorted[i].score)]],
                 LAMBDA r : r.stars # "")

\* a row of the csv the renderer writes
CsvRow(r) ==
    [entity |-> r.entity, score |-> r.score, signals |-> r.signals, w24 |-> r.w24,
     w6 |-> r.w6, decayed |-> r.decayed, clv_boost |-> r.clv_boost,
     sample_text |-> r.sample_text]

\* main(): what is written for out
Written(rows, out, weights) ==
    [csv |-> [cols |-> "render", rows |-> [i \in 1..Len(out) |-> CsvRow(out[i])]],
     md |-> [kind |-> "report", five |-> Block(out, "5"), four |-> Block(out, "4")],
     rows |-> rows,
     out |-> out,
     weights |-> weights]

\* main(): the rows loop and what follows it
Scored(variant, named, sigs, clock) ==
    LET trends == [i \in 1..Len(named) |->
                      trend_counts(variant, sigs, named[i].entity, clock)]
        rows == [i \in 1..Len(named) |-> ScoreRow(named[i], trends[i])]
    IN Written(rows, Report(variant, rows),
               Flatten([i \in 1..Len(named) |-> trends[i].weights]))

\* main() of a renderer on boardroom/boardroom_picks.csv and the signals
\* file: the two files it writes, with rows (every entity before the gates),
\* out (the report) and the weights trend_counts gave. The column
\* last_seen is copied through and left out here; the splits file gives no
\* boost (possible_clv_boost returns 0 on every path)
render(variant, picks_file, signals, clock, alias_index) ==
    LET kept == CleanPicks(variant, picks_file, alias_index)
        named == IF kept = <<>> /\ signals # <<>> /\ alias_index # <<>>
                 THEN SynthRows(variant, signals, alias_index, clock)
                 ELSE kept
    IN IF named = <<>>
       THEN [csv |-> NoTable,
             md |-> [kind |-> "no eligible plays", five |-> <<>>, four |-> <<>>],
             rows |-> <<>>, out |-> <<>>, weights |-> <<>>]
       ELSE Scored(variant, named, ResolvedSignals(signals, alias_index), clock)

\* boardroom_picks.star_rating(score)
star_rating(score) ==
    IF score >= FIVE_STAR_MIN THEN 5 ELSE IF score >= FOUR_STAR_MIN THEN 4 ELSE 0

\* boardroom_picks.add_stars(df)
add_stars(df) ==
    [i \in 1..Len(df) |->
        [entity |-> df[i].entity, total_score |-> df[i].total_score,
         signals |-> df[i].signals, sample_text |-> df[i].sample_text,
         stars |-> star_rating(df[i].total_score)]]

\* boardroom_picks.write_outputs(df, out_csv, out_md): the csv holds every
\* row of df, the markdown the rows of five and of four stars
write_outputs(df) ==
    LET block(rating) ==
            LET part == SelectSeq(df, LAMBDA r : r.stars = rating)
            IN [i \in 1..Len(part) |->
                  [entity |-> part[i].entity, score |-> part[i].total_score,
                   signals |-> part[i].signals]]
    IN [csv |-> [cols |-> "rollup", rows |-> df],
        md |-> [kind |-> "rollup", five |-> block(5), four |-> block(4)]]

\* the rows of the signals file: entity, timestamp, text and score (the
\* keyword weight of the row's text, in tenths)
SignalRows ==
    {[entity |-> "KC", timestamp |-> c, score |-> 25, text |-> "Chiefs steam"] :
        c \in {IsoCell(now_utc - a) : a \in Ages} \cup {NanCell, TextCell}}
    \cup {[entity |-> "BUF", timestamp |-> c, score |-> 35, text |-> "Sharp on Bills"] :
             c \in {IsoCell(now_utc - 3), IsoCell(now_utc - 48), NanCell}}

\* what boardroom_picks.aggregate returns: one row an entity, sorted by
\* total_score and signals, descending
Aggregates ==
    LET kc == {<<>>} \cup {<<[entity |-> "KC", total_score |-> t[1], signals |-> t[2],
                              sample_text |-> "Chiefs steam"]>> :
                   t \in {<<7000000, 1>>, <<7000000, 3>>, <<4000000, 3>>, <<1000000, 3>>}}
        buf == {<<>>} \cup {<<[entity |-> "BUF", total_score |-> t[1], signals |-> t[2],
                               sample_text |-> "Sharp on Bills"]>> :
                   t \in {<<4000000, 2>>, <<7000000, 2>>}}
        unk == {<<>>, <<[entity |-> "UNKNOWN", total_score |-> 7000000, signals |-> 3,
                         sample_text |-> "sharp money and steam"]>>}
    IN {sort_values(g, [i \in 1..Len(g) |-> <<g[i].total_score, g[i].signals>>]) :
           g \in {b \o k \o u : b \in buf, k \in kc, u \in unk}}

\* the signals a run with a team dictionary reads: rows of a file without an
\* entity column (main adds it as ""), SynthSignals of them naming the Chiefs
SynthSignals == 4
DictSignals ==
    {<<>>,
     [i \in 1..SynthSignals |->
         [entity |-> "", timestamp |-> IsoCell(now_utc - 3), score |-> 25,
          text |-> "Chiefs steam"]],
     <<[entity |-> "", timestamp |-> IsoCell(now_utc - 3), score |-> 25,
        text |-> "RLM on PACK -3"]>>}

\* the rollups such a run reads: infer_entity took THE and PACK from the
\* text in front of a number
DictAggregates ==
    {<<>>,
     <<[entity |-> "THE", total_score |-> 7000000, signals |-> 3,
        sample_text |-> "steam on the -3"]>>,
     <<[entity |-> "PACK", total_score |-> 7000000, signals |-> 3,
        sample_text |-> "RLM on PACK -3"]>>,
     <<[entity |-> "BUF", total_score |-> 7000000, signals |-> 2,
        sample_text |-> "Sharp on Bills"],
       [entity |-> "OVER", total_score |-> 6000000, signals |-> 2,
        sample_text |-> "Chiefs OVER 47"]>>}

NoBoard ==
    [variant |-> "", runs |-> 0, csv |-> NoTable, md |-> NoMd,
     rows |-> <<>>, out |-> <<>>, weights |-> <<>>, alias_index |-> <<>>]

\* the exit status of a python process: 0 when main() returns, 1 for
\* sys.exit(message) and for an uncaught exception, sys.exit(78) of
\* boardroom_picks.main
EXIT_OK == 0
EXIT_FAILURE == 1
EXIT_NO_PICKS == 78

BoardScripts == {"scripts/boardroom_picks.py"} \cup BoardVariants

\* a script that has not run, or a run that ended before it had a report
NoExit == [code |-> -1, promoted |-> -1]
NeverRan == [s \in BoardScripts |-> NoExit]

\* boardroom_picks.main(): the last statement, on agg with its stars
PicksExit(agg) ==
    LET promoted == SelectSeq(agg, LAMBDA r : r.stars = 5 \/ r.stars = 4)
    IN [code |-> IF promoted = <<>> THEN EXIT_NO_PICKS ELSE EXIT_OK,
        promoted |-> Len(promoted)]

\* boardroom_picks.py main(): load_signals ends the process when the signals
\* file is missing; otherwise, from aggregate on: add_stars, write_outputs
\* (there is no splits file to merge) and the exit status
BoardroomPicks ==
    /\ board.runs = 0
    /\ bmd = NoMd
    /\ IF ~bfound
       THEN /\ bexit' = [bexit EXCEPT !["scripts/boardroom_picks.py"] =
                            [code |-> EXIT_FAILURE, promoted |-> -1]]
            /\ UNCHANGED <<bpicks, bmd>>
       ELSE \E res \in {write_outputs(add_stars(bagg))} :
               /\ bpicks' = res.csv
               /\ bmd' = res.md
               /\ bexit' = [bexit EXCEPT !["scripts/boardroom_picks.py"] =
                               PicksExit(add_stars(bagg))]
    /\ UNCHANGED <<bsignals, bagg, board, bfound, bteams, pvars, rvars, mvars, svars>>

\* one run of a renderer: main(); board keeps the files as this run found
\* them and what the run computed
BoardroomRender ==
    /\ board.runs < MaxRenders
    /\ \E variant \in BoardVariants :
          /\ board.runs = 0 \/ board.variant = variant
          /\ \E alias_index \in {compile_alias_index(variant, load_team_dict(variant, bteams))} :
             \E res \in {render(variant, bpicks, bsignals, now_utc, alias_index)} :
                /\ bpicks' = res.csv
                /\ bmd' = res.md
                /\ board' = [variant |-> variant, runs |-> board.runs + 1,
                             csv |-> bpicks, md |-> bmd,
                             rows |-> res.rows, out |-> res.out, weights |-> res.weights,
                             alias_index |-> alias_index]
                /\ bexit' = [bexit EXCEPT ![variant] =
                                [code |-> EXIT_OK, promoted |-> Len(res.out)]]
    /\ UNCHANGED <<bsignals, bagg, bfound, bteams, pvars, rvars, mvars, svars>>

-----------------------------------------------------------------------------
(* scripts/live_delta_analysis.py: the per-day snapshot                     *)

MaxFeed == 3        \* rows of splits.csv
MaxLiveRuns == 2    \* runs of live_delta_analysis.py on one day

\* a float that is absent (None, written as "")
None == [some |-> FALSE, v |-> 0]
Some(v) == [some |-> TRUE, v |-> v]

\* the characters of the keys, in code point order
Ascii == " +-.0123456789:@ABCDEFGHIJKLMNOPQRSTUVWXYZ_abcdefghijklmnopqrstuvwxyz|"

RECURSIVE StrLess(_, _)
\* a < b on str
StrLess(a, b) ==
    IF b = "" THEN FALSE
    ELSE IF a = "" THEN TRUE
    ELSE IF Head(a) = Head(b) THEN StrLess(Tail(a), Tail(b))
    ELSE IndexIn(Head(a), Ascii) < IndexIn(Head(b), Ascii)

\* a < b on tuples of str of one length
TupleLess(a, b) ==
    \E k \in 1..Len(a) : StrLess(a[k], b[k]) /\ \A h \in 1..(k - 1) : a[h] = b[h]

\* the timestamp now_ts() of splits_ocr writes, read back: parse_ts(s) is
\* the time of an ISO string and the clock for anything else
parse_ts(s, clock) ==
    IF Len(s) >= 2 /\ Head(s) = "T" /\ \A i \in 2..Len(s) : IsDigit(Ch(s, i))
    THEN ParseInt(Tail(s))
    ELSE clock

\* datetime.isoformat() of an aware UTC time
isoformat(t) == NowTs(t) \o "+00:00"

\* pct_float(x): float(x), None when it raises (cells here hold whole
\* numbers with an optional sign, or nothing)
pct_float(x) ==
    LET signed == x # "" /\ Head(x) \in {"-", "+"}
        body == IF signed THEN Tail(x) ELSE x
    IN IF body = "" \/ \E i \in 1..Len(body) : ~IsDigit(Ch(body, i)) THEN None
       ELSE Some(IF signed /\ Head(x) = "-" THEN 0 - ParseInt(body) ELSE ParseInt(body))

RECURSIVE SplitOn(_, _)
\* s.split(sep) for a separator of one character
SplitOn(s, sep) ==
    IF \A i \in 1..Len(s) : Ch(s, i) # sep THEN <<s>>
    ELSE LET k == Min({i \in 1..Len(s) : Ch(s, i) = sep})
         IN <<SubSeq(s, 1, k - 1)>> \o SplitOn(SubSeq(s, k + 1, Len(s)), sep)

\* enrich_with_twitter_weights: the weight one row of the twitter file adds
\* to each of its teams, in quarters (2.0, 1.0, 0.25)
LevelWeight(r) ==
    IF Upper(r.signal_strength) = "HIGH" THEN 8
    ELSE IF Upper(r.signal_strength) = "MED" THEN 4 ELSE 1

\* enrich_with_twitter_weights: weights[t] after the loop over tw
TeamWeight(tw, team) ==
    FoldLeft(LAMBDA acc, r :
                 acc + LevelWeight(r)
                       * Len(SelectSeq(SplitOn(r.teams, "|"), LAMBDA t : Strip(t) = team)),
             0, tw)

\* enrich_with_twitter_weights(df): the twitter_weight column is added (tw
\* is empty when there is no twitter file)
enrich_with_twitter_weights(df, tw) ==
    [i \in 1..Len(df) |->
        [league |-> df[i].league, away_team |-> df[i].away_team,
         home_team |-> df[i].home_team, market |-> df[i].market,
         tickets_pct |-> df[i].tickets_pct, handle_pct |-> df[i].handle_pct,
         line |-> df[i].line, source |-> df[i].source, timestamp |-> df[i].timestamp,
         twitter_weight |-> TeamWeight(tw, df[i].away_team) + TeamWeight(tw, df[i].home_team)]]

game_key(row) ==
    row.league \o "::" \o Strip(row.away_team) \o " @ " \o Strip(row.home_team)

\* compute_snapshot.snap_metric(name), given first[name] and last[name]
snap_metric(f, l) ==
    [last |-> pct_float(l),
     delta |-> IF pct_float(f).some /\ pct_float(l).some
               THEN Some(pct_float(l).v - pct_float(f).v) ELSE None]

\* compute_snapshot: grouped, with the items of each game in timestamp
\* order (sorted() is stable). splits.csv has no event_date and event_time,
\* so cutoff_ok keeps every row
Grouped(df, clock) ==
    LET gks == Dedup([i \in 1..Len(df) |-> game_key(df[i])])
    IN [g \in 1..Len(gks) |->
          LET items == SelectSeq(df, LAMBDA r : game_key(r) = gks[g])
          IN [gk |-> gks[g],
              items_sorted |->
                 SortByKeys(items, [i \in 1..Len(items) |-> parse_ts(items[i].timestamp, clock)])]]

\* compute_snapshot: the row of one game (date, the team columns and
\* sources are left out)
SnapRow(group, clock) ==
    LET first == group.items_sorted[1]
        last == group.items_sorted[Len(group.items_sorted)]
    IN [league |-> last.league,
        game |-> group.gk,
        market |-> IF last.market = "" THEN "UNKNOWN" ELSE last.market,
        tickets_pct |-> snap_metric(first.tickets_pct, last.tickets_pct),
        handle_pct |-> snap_metric(first.handle_pct, last.handle_pct),
        line |-> snap_metric(first.line, last.line),
        observations |-> Len(group.items_sorted),
        twitter_weight |->
           FoldLeft(LAMBDA m, r : IF r.twitter_weight > m THEN r.twitter_weight ELSE m,
                    0, group.items_sorted),
        first_seen |-> isoformat(parse_ts(first.timestamp, clock)),
        last_seen |-> isoformat(parse_ts(last.timestamp, clock))]

\* the columns named in sort_values and drop_duplicates
SnapKey(r) == <<r.league, r.game, r.market, r.last_seen>>

\* compute_snapshot(df)
compute_snapshot(df, clock) ==
    LET groups == Grouped(df, clock)
        rows == [g \in 1..Len(groups) |-> SnapRow(groups[g], clock)]
        n == Len(rows)
        Rank(i) ==
            Cardinality({j \in 1..n :
                \/ TupleLess(SnapKey(rows[j]), SnapKey(rows[i]))
                \/ (SnapKey(rows[j]) = SnapKey(rows[i]) /\ j < i)}) + 1
    IN [r \in 1..n |-> rows[CHOOSE i \in 1..n : Rank(i) = r]]

\* main(): what game_snapshots.csv holds after the run, given the frame
\* load_frame returned
SnapshotFile(df, snap, file) ==
    IF df = <<>> THEN [exists |-> TRUE, rows |-> <<>>]
    ELSE IF file.exists
    THEN LET combined == file.rows \o snap
         IN [exists |-> TRUE,
             rows |-> drop_duplicates(combined,
                                      [i \in 1..Len(combined) |-> SnapKey(combined[i])])]
    ELSE [exists |-> TRUE, rows |-> snap]

\* rows of splits.csv: two markets of one game at two times, and a second
\* reading at the time of the first
FeedRows ==
    {OcrRow(NowTs(t[1]), "NFL", "Bills", "Chiefs", t[2], t[3], t[4], t[5], "MGM_FAM") :
        t \in {<<1, "ML", "55", "60", "-110">>, <<1, "ML", "56", "62", "-115">>,
               <<2, "ML", "58", "", "-120">>, <<1, "Spread", "40", "45", "-3">>,
               <<2, "Spread", "42", "47", "-4">>}}
    \cup {OcrRow(NowTs(2), "NFL", "Jets", "Dolphins", "ML", "30", "35", "+150", "GRID_OCR")}

\* audit_out/twitter_text_signals.csv as a run finds it: the teams and
\* signal_strength columns
TwitterFiles ==
    {<<>>,
     <<[teams |-> "Bills | Chiefs", signal_strength |-> "HIGH"]>>,
     <<[teams |-> "Bills | Chiefs", signal_strength |-> "HIGH"],
       [teams |-> "Jets", signal_strength |-> "med"]>>}

NoLiveRun == [runs |-> 0, groups |-> <<>>, snap |-> <<>>, prior |-> <<>>]

\* the OCR job appends a row to splits.csv
FeedAppend ==
    /\ Len(feed) < MaxFeed
    /\ \E r \in FeedRows :
          /\ \A i \in 1..Len(feed) :
                parse_ts(feed[i].timestamp, 0) <= parse_ts(r.timestamp, 0)
          /\ feed' = Append(feed, r)
    /\ UNCHANGED <<snapcsv, lrun, binputs, crun, pvars, rvars, mvars, bvars>>

\* one run of live_delta_analysis.py: main(); the markdown files are
\* rendered from snap and kept out of the state
LiveDelta ==
    /\ lrun.runs < MaxLiveRuns
    /\ \E clock \in {3}, tw \in TwitterFiles :
          LET df == enrich_with_twitter_weights(load_frame(feed), tw)
              snap == IF df = <<>> THEN <<>> ELSE compute_snapshot(df, clock)
          IN /\ snapcsv' = SnapshotFile(df, snap, snapcsv)
             /\ lrun' = [runs |-> lrun.runs + 1, groups |-> Grouped(df, clock),
                         snap |-> snap, prior |-> snapcsv.rows]
    /\ UNCHANGED <<feed, binputs, crun, pvars, rvars, mvars, bvars>>

-----------------------------------------------------------------------------
(* scripts/clean_boardroom_inputs.py                                        *)

MaxInputs == 2       \* rows of boardroom_inputs.csv before the first run
MaxCleanRuns == 2    \* runs of clean_boardroom_inputs.py

LEAGUES == {"NFL", "NCAAF", "NBA", "NCAAB", "MLB", "NHL", "UFC/MMA"}
\* MARKETS of clean_boardroom_inputs
CLEAN_MARKETS == {"ML", "Spread", "Total"}

\* BAD_PAT.search(s)
BAD_PAT(s) ==
    \E p \in {"ESTIMATING", "SPORTSBOOK", "EXPANDED SPLITS", "TOTAL BETS", "CFB -"} :
        Contains(Upper(s), p)

\* ALPHAOK.search(s)
ALPHAOK(s) == \E i \in 1..Len(s) : IsLetter(Ch(s, i))

\* str(v) of a list of strings
PyStrList(v) ==
    "[" \o JoinWords([i \in 1..Len(v) |-> "'" \o v[i] \o "'"], ", ") \o "]"

\* team_maps: the files of the folder in the order of the loop (nfl,
\* ncaaf_fbs_seed, nba, ncaab, mlb, nhl; the folder holds no ncaab.json),
\* one that is not JSON skipped
team_maps(droot) ==
    LET order == <<1, 5, 3, 2, 4>>
        found == SelectSeq(order, LAMBDA k : droot[k].isfile /\ droot[k].json)
    IN [i \in 1..Len(found) |-> droot[found[i]].data]

\* resolvable(name)
resolvable(name, maps) ==
    IF name = "" \/ ~ALPHAOK(name) THEN FALSE
    ELSE LET n == Lower(Strip(name))
         IN \E k \in 1..Len(maps) :
               \/ \E e \in 1..Len(maps[k]) : Lower(maps[k][e][1]) = n
               \/ \E e \in 1..Len(maps[k]) : Lower(PyStrList(maps[k][e][2])) = n

\* the hard filters of the loop: the reason a row is dropped for, "" for a
\* row that is kept
HardFilter(r, maps) ==
    LET lg == Strip(r.league)
        aw == Strip(r.away_team)
        hm == Strip(r.home_team)
        mkt == Strip(r.market)
        tp == Strip(r.tickets_pct)
        hp == Strip(r.handle_pct)
    IN IF lg \notin LEAGUES THEN "league"
       ELSE IF mkt \notin CLEAN_MARKETS THEN "market"
       ELSE IF BAD_PAT(aw) \/ BAD_PAT(hm) THEN "badstr"
       ELSE IF ~resolvable(aw, maps) \/ ~resolvable(hm, maps) THEN "resolve"
       ELSE IF tp = "" /\ hp = "" THEN "empty%"
       ELSE ""

\* keep after the loop
CleanRows(rows, maps) == SelectSeq(rows, LAMBDA r : HardFilter(r, maps) = "")

\* drop after the loop
DropRows(rows, maps) ==
    LET d == SelectSeq(rows, LAMBDA r : HardFilter(r, maps) # "")
    IN [i \in 1..Len(d) |-> <<d[i], HardFilter(d[i], maps)>>]

InputRow(league, away, home, market, tickets, handle) ==
    [league |-> league, away_team |-> away, home_team |-> home, market |-> market,
     tickets_pct |-> tickets, handle_pct |-> handle]

\* rows of boardroom_inputs.csv: two that pass and one for each hard filter
InputRows ==
    {InputRow("NFL", "Kansas City Chiefs", " New York Giants", "ML", "55", "60"),
     InputRow("NFL", "arizona cardinals", "Kansas City Chiefs", "Spread", "", "48"),
     InputRow("XFL", "Kansas City Chiefs", "New York Giants", "ML", "55", "60"),
     InputRow("NFL", "Kansas City Chiefs", "New York Giants", "Moneyline", "55", "60"),
     InputRow("NFL", "Total Bets", "New York Giants", "ML", "55", "60"),
     InputRow("NFL", "Chiefs", "New York Giants", "ML", "55", "60"),
     InputRow("NFL", "Kansas City Chiefs", "New York Giants", "Total", "", " ")}

\* the dictionaries folders of a clean run
CleanFolders ==
    {NoFolder, BrokenFolder, <<JsonFile(NflJson), JsonFile(MlbJson), NoFile, NoFile, NoFile>>}

NoCleanRun == [runs |-> 0, keep |-> <<>>, drop |-> <<>>, rej |-> <<>>]

\* one run of clean_boardroom_inputs.py
CleanBoardroomInputs ==
    /\ crun.runs < MaxCleanRuns
    /\ IF ~binputs.exists
       THEN /\ crun' = [crun EXCEPT !.runs = @ + 1, !.keep = <<>>, !.drop = <<>>]
            /\ UNCHANGED binputs
       ELSE \E keep \in {CleanRows(binputs.rows, team_maps(dictionaries))},
               drop \in {DropRows(binputs.rows, team_maps(dictionaries))} :
               /\ binputs' = IF keep # <<>> THEN [exists |-> TRUE, rows |-> keep]
                              ELSE binputs
               /\ crun' = [runs |-> crun.runs + 1, keep |-> keep, drop |-> drop,
                           rej |-> IF drop # <<>> THEN drop ELSE crun.rej]
    /\ UNCHANGED <<feed, snapcsv, lrun, pvars, rvars, mvars, bvars>>

SInit ==
    /\ feed = <<>>
    /\ snapcsv = [exists |-> FALSE, rows |-> <<>>]
    /\ lrun = NoLiveRun
    /\ binputs = [exists |-> FALSE, rows |-> <<>>]
    /\ crun = NoCleanRun

BInit ==
    /\ bsignals = <<>>
    /\ bagg = <<>>
    /\ bpicks = NoTable
    /\ bmd = NoMd
    /\ board = NoBoard
    /\ bfound = FALSE
    /\ bteams = NoTeams
    /\ bexit = NeverRan

MInit ==
    /\ obs = <<>>
    /\ tables = NoTables
    /\ merged = NoMerge

OInit == MInit /\ BInit /\ SInit

RInit ==
    /\ dictionaries = NoFolder
    /\ tdict = TeamDictionary
    /\ tfile = "json"
    /\ rpc = "idle"
    /\ ing = Unloaded
    /\ call = NoCall
    /\ irun = NotRun
    /\ ana = NoDicts
    /\ arows = <<>>
    /\ aout = Absent
    /\ guard_aliases = <<>>
    /\ gcall = NoTeamCall

PInit ==
    /\ splits = Absent
    /\ clean = Absent
    /\ now = 0
    /\ gpc = "idle"
    /\ gdf = <<>>
    /\ gpromote = FALSE
    /\ goff = 0
    /\ gbefore = Absent
    /\ observed = [rows |-> 0, midwrite |-> FALSE]

Init == PInit /\ RInit /\ OInit

Next ==
    \/ OcrRun
    \/ GuardRun
    \/ GuardPromoteOpen
    \/ GuardPromoteFlush
    \/ GuardPromoteClose
    \/ ReaderRead

Spec == Init /\ [][Next]_vars

InitResolve ==
    /\ PInit
    /\ \E files \in Configurations :
          /\ dictionaries = files[1]
          /\ tdict = files[2]
          /\ tfile = files[3]
    /\ rpc = "idle"
    /\ ing = Unloaded
    /\ call = NoCall
    /\ irun = NotRun
    /\ ana = NoDicts
    /\ arows = <<>>
    /\ aout = Absent
    /\ guard_aliases = <<>>
    /\ gcall = NoTeamCall
    /\ OInit

NextResolve ==
    \/ LoadDictionaries
    \/ ResolveTweet
    \/ IngestScript
    \/ LoadDicts
    \/ AnalyzeRow
    \/ AnalyzeWrite
    \/ LoadAliases
    \/ ResolveTeam

SpecResolve == InitResolve /\ [][NextResolve]_vars


InitMerge ==
    /\ PInit
    /\ RInit
    /\ \/ /\ obs \in UNION {[1..n -> ObsRows] : n \in 0..MaxObs}
          /\ tables = NoTables
       \/ /\ obs = <<>>
          /\ tables \in {[NoTables EXCEPT !.resolver = r, !.fills = f, !.twitter = t] :
                            r \in UNION {[1..n -> ResRows] : n \in 0..MaxObs},
                            f \in UNION {[1..n -> FillRows] : n \in 0..1},
                            t \in UNION {[1..n -> TwRows] : n \in 0..1}}
    /\ merged = NoMerge
    /\ BInit
    /\ SInit

NextMerge ==
    \/ LoadFrame
    \/ LoadFrameAgain
    \/ ParseBlocksDedup
    \/ NormalizeMerge
    \/ NormalizeMergeAgain

SpecMerge == InitMerge /\ [][NextMerge]_vars

InitClean ==
    /\ PInit
    /\ dictionaries \in CleanFolders
    /\ tdict = TeamDictionary
    /\ tfile = "json"
    /\ rpc = "idle"
    /\ ing = Unloaded
    /\ call = NoCall
    /\ irun = NotRun
    /\ ana = NoDicts
    /\ arows = <<>>
    /\ aout = Absent
    /\ guard_aliases = <<>>
    /\ gcall = NoTeamCall
    /\ MInit
    /\ BInit
    /\ feed = <<>>
    /\ snapcsv = [exists |-> FALSE, rows |-> <<>>]
    /\ lrun = NoLiveRun
    /\ binputs \in {[exists |-> FALSE, rows |-> <<>>]}
                     \cup {[exists |-> TRUE, rows |-> rows] :
                              rows \in UNION {[1..n -> InputRows] : n \in 0..MaxInputs}}
    /\ crun = NoCleanRun

NextClean == CleanBoardroomInputs

SpecClean == InitClean /\ [][NextClean]_vars

InitBoard ==
    /\ PInit
    /\ RInit
    /\ MInit
    /\ SInit
    /\ \/ /\ bfound = TRUE
          /\ bteams = NoTeams
          /\ bsignals \in UNION {[1..n -> SignalRows] : n \in 0..MaxSignals}
          /\ bagg \in Aggregates
       \/ /\ bfound = FALSE
          /\ bteams = NoTeams
          /\ bsignals = <<>>
          /\ bagg = <<>>
       \/ /\ bfound = TRUE
          /\ bteams \in TeamFiles \ {NoTeams}
          /\ bsignals \in DictSignals
          /\ bagg \in DictAggregates
    /\ bpicks = NoTable
    /\ bmd = NoMd
    /\ board = NoBoard
    /\ bexit = NeverRan

NextBoard ==
    \/ BoardroomPicks
    \/ BoardroomRender

SpecBoard == InitBoard /\ [][NextBoard]_vars

InitSnapshot ==
    /\ PInit
    /\ RInit
    /\ MInit
    /\ BInit
    /\ feed \in UNION {[1..n -> FeedRows] : n \in 0..1}
    /\ snapcsv = [exists |-> FALSE, rows |-> <<>>]
    /\ lrun = NoLiveRun
    /\ binputs = [exists |-> FALSE, rows |-> <<>>]
    /\ crun = NoCleanRun

NextSnapshot ==
    \/ FeedAppend
    \/ LiveDelta

SpecSnapshot == InitSnapshot /\ [][NextSnapshot]_vars

-----------------------------------------------------------------------------
(* The persisted observation log (Spec)                                    *)

\* C1: a guard run with --promote that keeps fewer than 25 rows leaves
\* splits.csv as it was when the run read it.
PromoteGuardedByRowCount ==
    [][(gpc = "writing" /\ gpc' = "idle" /\ Len(gdf) < 25) => splits' = gbefore]_vars

\* C2: no reader sees splits.csv truncated or partly written while the
\* guard overwrites it.
PromoteRewriteAtomic == ~observed.midwrite

\* C3: whenever no write of splits.csv is in flight, its header is
\* FIELDNAMES and every data row has as many fields as the header.
LogHasFieldnames ==
    (splits.exists /\ gpc # "writing") =>
        /\ Len(splits.lines) >= 1
        /\ splits.lines[1] = FIELDNAMES
        /\ \A i \in 2..Len(splits.lines) : Len(splits.lines[i]) = Len(splits.lines[1])

\* a percentage cell of the csv: empty, or a number in [0, 100]
PctNullOrInRange(x) ==
    \/ x = ""
    \/ /\ \A i \in 1..Len(x) : IsDigit(Ch(x, i)) \/ Ch(x, i) = "."
       /\ Contains(x, ".") => EndsWith(x, ".0")
       /\ IsDigit(Ch(x, 1))
       /\ ParseInt(IF Contains(x, ".") THEN SubSeq(x, 1, Len(x) - 2) ELSE x) \in 0..100

\* C4: in every state of splits.csv, each row's tickets_pct and
\* handle_pct is empty or a number in [0, 100].
LogPctInRange ==
    \A i \in 1..Len(splits.lines) :
        LET ln == splits.lines[i]
            at == IF Len(ln) = Len(FIELDNAMES) THEN 6 ELSE 5
        IN (ln # FIELDNAMES /\ ln # keep_cols) =>
              PctNullOrInRange(ln[at]) /\ PctNullOrInRange(ln[at + 1])

-----------------------------------------------------------------------------
(* The tweet resolvers and the dictionaries (SpecResolve)                  *)

\* the hits of the hinted league, when the hint applies
HintHits == OfLeague(call.hits, call.league_hint)
HintApplies == call.made /\ call.league_hint # "" /\ Len(HintHits) >= 2

\* C5: with a league hint and at least two teams of that league among the
\* hits, the pair is that league's two earliest teams, in position order,
\* with league = hint and method HINT_DOMINANT.
HintPairsEarliestTwo ==
    HintApplies =>
        /\ call.res.ok
        /\ call.res.league = call.league_hint
        /\ call.res.method = "HINT_DOMINANT"
        /\ \E i, j \in 1..Len(HintHits) :
              /\ i # j
              /\ HintHits[i].team = call.res.t1
              /\ HintHits[j].team = call.res.t2
              /\ HintHits[i].pos <= HintHits[j].pos
              /\ \A k \in 1..Len(HintHits) \ {i, j} : HintHits[j].pos <= HintHits[k].pos

\* the hint applies although another league has more teams among the hits
HintBeatsLargerLeague ==
    /\ HintApplies
    /\ \E h \in 1..Len(call.hits) :
          Len(OfLeague(call.hits, call.hits[h].league)) > Len(HintHits)
    /\ call.res.league = call.league_hint

\* the teams of league lg among the hits of the last call
TeamsOf(lg) == Len(OfLeague(call.hits, lg))

\* C6: without an applicable hint the pair comes from the league with the
\* most teams among the hits; among leagues tied on that count, from the one
\* whose second team comes earliest; and the result is the same for every
\* order in which a run can produce the same hits.
DominantLeagueDeterministic ==
    (call.made /\ ~HintApplies) =>
        /\ call.res.ok =>
              \A h \in 1..Len(call.hits) :
                 LET lg == call.hits[h].league
                 IN /\ TeamsOf(lg) <= TeamsOf(call.res.league)
                    /\ TeamsOf(lg) = TeamsOf(call.res.league) =>
                          second_pos(call.hits, call.res.league) <= second_pos(call.hits, lg)
        /\ \A d \in load_dictionaries(dictionaries) :
              choose_pair_from_hits(detect_teams(call.text, d.patterns, d.team_to_league),
                                    call.league_hint) = call.res

\* the records of the csv of the last script run for which no same-league
\* pair exists, whatever the order of the hits
NoPairRecords ==
    {i \in 1..Len(irun.csv) :
        \A d \in load_dictionaries(dictionaries) :
           ~choose_pair_from_hits(detect_teams(irun.csv[i].text, d.patterns, d.team_to_league),
                                  Upper(Strip(irun.csv[i].league_hint))).ok}

\* C7: choose_pair_from_hits returns None when there are no hits or the
\* winning league has fewer than two teams, and the run then emits no
\* resolved row for the record: nothing, or under --keep-mixed its
\* NO_PAIR/MIXED row.
NoPairNoResolvedRow ==
    /\ (call.made /\ \A h \in 1..Len(call.hits) : TeamsOf(call.hits[h].league) < 2) =>
          call.res = NoPair
    /\ irun.ran =>
          \A i \in NoPairRecords :
             LET kept == {k \in 2..Len(irun.out.lines) :
                             irun.out.lines[k].text = irun.csv[i].text}
             IN /\ \A k \in kept : irun.out.lines[k] = MixedRow(irun.csv[i].text)
                /\ irun.keep_mixed => kept # {}

\* where team is first matched in the text of the last call: the least
\* start of a match of a pattern that names it
LeftmostMatch(team) ==
    Min(UNION {TokMatchStarts(Upper(call.text), ing.patterns[k].toks) :
                  k \in {n \in 1..Len(ing.patterns) :
                            \E j \in 1..Len(ing.patterns[n].teams) :
                               ing.patterns[n].teams[j] = team}})

\* where team is first matched in txt by an alias of ALIAS_TO
LeftmostAlias(txt, team) ==
    Min(UNION {AliasStarts(Upper(txt), ana.ALIAS_TO[k][1]) :
                  k \in {n \in 1..Len(ana.ALIAS_TO) : ana.ALIAS_TO[n][2] = team}})

\* C8: detect_teams returns each team once, at its leftmost match, and the
\* teams in left-to-right order of the text, in ingest_twitter_csv and in
\* analyze_twitter_text.
DetectTeamsLeftToRight ==
    /\ call.made =>
          \A i, j \in 1..Len(call.hits) :
             /\ call.hits[i].pos = LeftmostMatch(call.hits[i].team)
             /\ i < j => /\ call.hits[i].team # call.hits[j].team
                         /\ call.hits[i].pos <= call.hits[j].pos
    /\ \A r \in 1..Len(arows) :
          \A i, j \in 1..Len(arows[r].teams) :
             i < j => /\ arows[r].teams[i] # arows[r].teams[j]
                      /\ LeftmostAlias(arows[r].text, arows[r].teams[i])
                            <= LeftmostAlias(arows[r].text, arows[r].teams[j])

\* the keys of a dict are distinct
KeysDistinct(d) == \A i, j \in 1..Len(d) : i # j => d[i][1] # d[j][1]

\* the team of the first entry of the dictionary files that offers the
\* alias (after norm), "" if none does
FirstOffer(alias, names(_), norm(_)) ==
    LET entries == Entries(dictionaries)
        offers == {i \in 1..Len(entries) :
                      \E j \in 1..Len(names(entries[i])) : norm(names(entries[i])[j]) = alias}
    IN IF offers = {} THEN "" ELSE entries[Min(offers)].team

\* the canon of the first entry of team_dictionary.json that offers the alias
FirstCanon(alias) ==
    tdict[Min({i \in 1..Len(tdict) :
                  \E j \in 1..Len(tdict[i][2]) : Lower(_norm(tdict[i][2][j])) = alias})][1]

\* C9: in the alias index of each loader an alias maps to one team, the
\* first one written for it.
AliasIndexFirstWriteWins ==
    /\ ing.loaded =>
          \A k \in 1..Len(ing.patterns) :
             ing.patterns[k].teams =
                <<FirstOffer(ing.patterns[k].alias,
                             LAMBDA e : Append(e.aliases, e.team),
                             LAMBDA a : Upper(CollapseSpaces(Strip(a))))>>
    /\ ana.loaded =>
          /\ KeysDistinct(ana.ALIAS_TO)
          /\ \A k \in 1..Len(ana.ALIAS_TO) :
                ana.ALIAS_TO[k][2] =
                   FirstOffer(ana.ALIAS_TO[k][1],
                              LAMBDA e : seed_aliases(e.team) \o e.aliases,
                              LAMBDA a : Upper(Strip(a)))
    /\ /\ KeysDistinct(guard_aliases)
       /\ \A k \in 1..Len(guard_aliases) :
             guard_aliases[k][2] = FirstCanon(guard_aliases[k][1])

\* C10: after load_dicts every entry of extras whose team is in the
\* dictionaries maps its shorthand to that team.
ExtrasNeverOverwritten ==
    ana.loaded =>
        \A k \in 1..Len(extras) :
           extras[k][2] \in team_set(dictionaries) =>
              /\ DictHas(ana.ALIAS_TO, extras[k][1])
              /\ DictGet(ana.ALIAS_TO, extras[k][1]) = extras[k][2]

\* alias (its words, separated by white space) occurs in S as a whole
\* token: not preceded and not followed by a letter or a digit
WholeTokenIn(S, words) ==
    words # <<>> /\
    \E j \in 1..Len(S) :
        LET e == MatchToks(S, j, words)
        IN /\ e > 0
           /\ (j = 1 \/ ~IsAlnum(Ch(S, j - 1)))
           /\ (e > Len(S) \/ ~IsAlnum(Ch(S, e)))

AliasTokenIngest ==
    call.made =>
        \A k \in 1..Len(call.hits) :
            \E p \in 1..Len(ing.patterns) :
                /\ \E q \in 1..Len(ing.patterns[p].teams) :
                      ing.patterns[p].teams[q] = call.hits[k].team
                /\ WholeTokenIn(Upper(call.text), ing.patterns[p].toks)

AliasTokenAnalyze ==
    \A r \in 1..Len(arows) : \A t \in 1..Len(arows[r].teams) :
        \E a \in 1..Len(ana.ALIAS_TO) :
            /\ ana.ALIAS_TO[a][2] = arows[r].teams[t]
            /\ WholeTokenIn(Upper(arows[r].text), SplitWords(ana.ALIAS_TO[a][1]))

AliasTokenGuard ==
    (gcall.made /\ gcall.team # "None") =>
        \E a \in 1..Len(guard_aliases) :
            /\ guard_aliases[a][2] = gcall.team
            /\ WholeTokenIn(Lower(_norm(gcall.txt)), SplitWords(guard_aliases[a][1]))

\* C11: a resolver names a team for a text only if one of the team's aliases
\* occurs in the text as a whole token, never as a part of a longer
\* alphanumeric word (detect_teams of both twitter scripts, resolve_team).
AliasesMatchWholeTokens == AliasTokenIngest /\ AliasTokenAnalyze /\ AliasTokenGuard

-----------------------------------------------------------------------------
(* The dedup steps (SpecMerge)                                             *)

ObsIdentity(r) ==
    <<r.league, r.away_team, r.home_team, r.market, r.source, r.line,
      r.tickets_pct, r.handle_pct>>
StageIdentity(r) ==
    <<r.league, r.away_team, r.home_team, r.market, r.source, r.line,
      r.bets_pct, r.handle_pct>>

\* out keeps one row of each identity of x and nothing else
CollapsesByIdentity(x, out, Identity(_)) ==
    /\ \A i \in 1..Len(x) : \E j \in 1..Len(out) : Identity(out[j]) = Identity(x[i])
    /\ \A i, j \in 1..Len(out) : Identity(out[i]) = Identity(out[j]) => i = j
    /\ \A j \in 1..Len(out) : \E i \in 1..Len(x) : x[i] = out[j]

DedupLoadFrame ==
    merged.by = "load_frame" => CollapsesByIdentity(merged.x, merged.out, ObsIdentity)
DedupParseBlocks ==
    merged.by = "parse_blocks" => CollapsesByIdentity(merged.x, merged.out, ObsIdentity)
DedupNormalize ==
    merged.by = "normalize_and_merge" =>
        CollapsesByIdentity(merged.x, merged.out, StageIdentity)

\* C12: every dedup step collapses two observations exactly when their
\* (league, away, home, market, source, line, ticketsPct, handlePct) tuples
\* are identical: one row per tuple, and rows that differ in a field all stay.
DedupByIdentity == DedupLoadFrame /\ DedupParseBlocks /\ DedupNormalize

\* C13: a dedup/merge step applied to its own output returns it unchanged.
MergeIdempotent == merged.twice => merged.out = merged.x

\* a second application whose first one had dropped duplicates
MergedTwiceAfterCollapse ==
    /\ merged.twice
    /\ merged.by = "normalize_and_merge"
    /\ Len(merged.out) < Len(tables.res_tbl) + Len(tables.tw_tbl)
    /\ Len(merged.out) >= 2


\* C27: the staged output of normalize_and_merge has no row whose league is
\* MIXED, from the resolver table or from the twitter table (the NO_PAIR rows
\* that ingest_twitter_csv keeps under --keep-mixed among them)
NoMixedStaged ==
    merged.by = "normalize_and_merge" =>
        \A i \in 1..Len(merged.out) : merged.out[i].league # "MIXED"

\* the rows of the resolver table and of the promoted fills: none is MIXED
ResolverMixedDropped ==
    merged.by = "normalize_and_merge" =>
        \A i \in 1..Len(merged.out) :
            merged.out[i].source # "TWITTER" => merged.out[i].league # "MIXED"

\* a resolver table that held a MIXED pair has been staged
MixedPairRead ==
    /\ merged.by = "normalize_and_merge"
    /\ \E i \in 1..Len(tables.resolver) : tables.resolver[i].pair_league = "MIXED"
    /\ Len(merged.out) > 0

\* C20: grade_signal gives every row exactly one of HIGH, MED and LOW: HIGH
\* whenever a HIGH pattern matches the text (a MED pattern matching too or
\* not), MED only when no HIGH pattern matches and a MED pattern does, LOW
\* otherwise. Rows are only appended: every row is the last row of the state
\* in which it was graded
GradeHighBeforeMed ==
    \A r \in {Len(arows)} \ {0} :
        LET g == arows[r].signal_strength
            high == HIGH(arows[r].text)
            med == MED(arows[r].text)
        IN /\ g \in {"HIGH", "MED", "LOW"}
           /\ (g = "HIGH") = high
           /\ (g = "MED") = (~high /\ med)
           /\ (g = "LOW") = (~high /\ ~med)

\* a row whose text matches a HIGH and a MED pattern has been graded, and rows
\* of the two other grades with it
GradedBothPatterns ==
    /\ \E r \in 1..Len(arows) :
          HIGH(arows[r].text) /\ MED(arows[r].text) /\ arows[r].signal_strength = "HIGH"
    /\ \E r \in 1..Len(arows) : arows[r].signal_strength \in {"MED", "LOW"}


-----------------------------------------------------------------------------
(* The boardroom scripts (SpecBoard)                                       *)

\* C14: a second run of the renderer right after a first one, on the same
\* signals, splits, dictionary and clock, leaves boardroom_picks.csv and
\* boardroom_picks.md as the first run wrote them
RenderTwiceSameFiles ==
    board.runs >= 2 => (bpicks = board.csv /\ bmd = board.md)

\* the lines of the two star blocks of boardroom_picks.md
ReportLines(md) == {md.five[i] : i \in 1..Len(md.five)} \cup {md.four[i] : i \in 1..Len(md.four)}

\* the gates and the stars on the lines of a report
GatedLines(md) ==
    /\ \A l \in ReportLines(md) :
          l.signals >= MIN_SIGNALS /\ l.score >= (IF STAR4 < STAR5 THEN STAR4 ELSE STAR5)
    /\ \A i \in 1..Len(md.five) : md.five[i].score >= STAR5
    /\ \A i \in 1..Len(md.four) : md.four[i].score >= STAR4 /\ md.four[i].score < STAR5

\* the report of a renderer: the gated entities, and all of them
GatedRender ==
    (board.runs >= 1 /\ bmd.kind = "report") =>
        /\ GatedLines(bmd)
        /\ \A i \in 1..Len(board.rows) :
              LET r == board.rows[i]
              IN (r.signals >= MIN_SIGNALS /\ GE(r.score, STAR4) /\ GE(r.score, STAR5))
                    => \E k \in 1..Len(bmd.five) : bmd.five[k].entity = r.entity
        /\ \A i \in 1..Len(board.rows) :
              LET r == board.rows[i]
              IN (r.signals >= MIN_SIGNALS /\ GE(r.score, STAR4) /\ ~GE(r.score, STAR5))
                    => \E k \in 1..Len(bmd.four) : bmd.four[k].entity = r.entity
        /\ bpicks.cols = "render"
        /\ {bpicks.rows[i].entity : i \in 1..Len(bpicks.rows)}
              = {l.entity : l \in ReportLines(bmd)}

\* the report of boardroom_picks.py
GatedPicks == bmd.kind = "rollup" => GatedLines(bmd)

\* C15: every entity of the final report has signalCount >= minSignals and
\* score >= min(tier4, tier5); it has five stars exactly when its score is
\* at least tier5, four stars exactly when it is at least tier4 and below
\* tier5, and every other entity is absent
GatedReport == GatedRender /\ GatedPicks

\* the observations of entity inside the lookback window: a timestamp that
\* parses and is at most DEFAULT_HOURS old, or one that does not parse
InWindow(entity) ==
    SelectSeq(bsignals,
              LAMBDA r : /\ resolve_entity(r.entity, r.text, board.alias_index) = entity
                         /\ (r.timestamp.kind = "iso"
                                => now_utc - r.timestamp.at <= DEFAULT_HOURS))

\* keywordWeight x decayWeight of an observation, in millionths
WeightedScore(r) ==
    LET w == IF r.timestamp.kind = "iso" THEN DecayTable[now_utc - r.timestamp.at] ELSE Half
    IN (r.score * Micro(w)) \div 10

\* C16: the score of an entity is the sum of keywordWeight x decayWeight over
\* exactly its observations inside the lookback window, and its signal count
\* counts exactly those observations
ScoreSumsWindow ==
    \A i \in 1..Len(board.rows) :
        LET r == board.rows[i]
            seen == InWindow(r.entity)
        IN /\ r.score = Round2(FoldLeft(LAMBDA d, x : d + WeightedScore(x), 0, seen))
           /\ r.signals = Len(seen)

\* C17: an observation whose timestamp is missing or does not parse weighs
\* 0.5, in both renderers
UnknownTimeWeighsHalf ==
    \A i \in 1..Len(board.weights) :
        board.weights[i].timestamp.kind # "iso" => board.weights[i].w = Half

\* weight a > weight b, neither nan
WeightGreater(a, b) ==
    /\ a.m > 0
    /\ b.m >= 0
    /\ b.m = 0 \/ a.e > b.e \/ (a.e = b.e /\ a.m > b.m)

\* the age in hours of the timestamp of weight i of the last run, -1 if it
\* did not parse
AgeOf(i) ==
    IF board.weights[i].timestamp.kind = "iso"
    THEN now_utc - board.weights[i].timestamp.at ELSE -1

\* C18 as stated: of two observations the younger weighs strictly more
DecayStrictlyDecreasing ==
    \A i, j \in 1..Len(board.weights) :
        (AgeOf(i) >= 0 /\ AgeOf(i) < AgeOf(j))
            => WeightGreater(board.weights[i].w, board.weights[j].w)

\* an age up to which exp(-age / 24) is a normal float64 (it is one down to
\* 2.2e-308, age 17001 h)
NormalAge == 17000

\* C18: of two observations the older never weighs more, and the younger
\* weighs strictly more when its age is at most NormalAge (past 17883 h, two
\* years, the float64 weight is 0.0 whatever the age)
DecayDecreasing ==
    \A i, j \in 1..Len(board.weights) :
        (AgeOf(i) >= 0 /\ AgeOf(i) < AgeOf(j))
            => /\ ~WeightGreater(board.weights[j].w, board.weights[i].w)
               /\ AgeOf(i) <= NormalAge
                     => WeightGreater(board.weights[i].w, board.weights[j].w)

\* a run weighed a timestamp inside the window and one three years old
WeighedYoungAndOld ==
    \E i, j \in 1..Len(board.weights) :
        AgeOf(i) >= 0 /\ AgeOf(i) <= DEFAULT_HOURS /\ AgeOf(j) > NormalAge

\* C19: the report is ordered by score, then by the 6 h count, then by the
\* 24 h count, then by the signal count, each descending
ReportOrdered ==
    \A i, j \in 1..Len(board.out) :
        i < j => ~LexGreater(<<board.out[j].score, board.out[j].w6, board.out[j].w24,
                               board.out[j].signals>>,
                             <<board.out[i].score, board.out[i].w6, board.out[i].w24,
                               board.out[i].signals>>)

\* C21: a run of a script that writes the picks report and promotes no
\* entity ends with an exit status that is neither the status of success
\* nor the status of a run that found no signals file.
ExitTellsNoPicks ==
    \A s \in BoardScripts :
        bexit[s].promoted = 0 => bexit[s].code \notin {EXIT_OK, EXIT_FAILURE}

\* boardroom_picks.py alone keeps the three outcomes apart
PicksExitTellsNoPicks ==
    LET e == bexit["scripts/boardroom_picks.py"]
    IN /\ e.promoted = 0 => e.code = EXIT_NO_PICKS
       /\ e.promoted > 0 => e.code = EXIT_OK
       /\ (e # NoExit /\ e.promoted = -1) => e.code = EXIT_FAILURE

\* C22: a dictionary file that is missing or malformed is skipped by every
\* loader: the run goes on with the aliases that remain and does not end
\* with an error.
BadDictionaryFile ==
    \/ tfile # "json"
    \/ \E k \in 1..Len(DictFiles) : ~dictionaries[k].isfile \/ ~dictionaries[k].json

BadDictionarySkipped == BadDictionaryFile => rpc # "failed"

\* what does hold: a file of the dictionaries folder that is missing is
\* skipped by load_dictionaries and load_dicts
MissingLeagueFileSkipped ==
    (tfile = "json" /\ ~JsonLoadRaises(dictionaries)) => rpc # "failed"

\* the canonical keys of the dictionary the last run loaded
Canons == {board.alias_index[k][1] : k \in 1..Len(board.alias_index)}

\* C25: with a dictionary loaded that is not empty, the entity of every row
\* a renderer keeps is a canonical key of the dictionary; the fallback to
\* a token of two to five letters is taken with an empty dictionary only.
AllowListStrict ==
    (board.runs >= 1 /\ board.alias_index # <<>>) =>
        \A i \in 1..Len(board.rows) : board.rows[i].entity \in Canons

JunkDroppedSynthesized ==
    /\ board.runs = 1
    /\ board.alias_index # <<>>
    /\ \E i \in 1..Len(board.csv.rows) : board.csv.rows[i].entity \in STOP_ENTITIES
    /\ \A i \in 1..Len(board.csv.rows) : board.csv.rows[i].entity \in STOP_ENTITIES
    /\ bpicks.rows # <<>>

-----------------------------------------------------------------------------
(* The tweet resolver, continued (SpecResolve)                             *)

\* two leagues have the greatest number of teams among the hits of the call
CrossLeagueTie ==
    \E a, b \in 1..Len(call.hits) :
        /\ call.hits[a].league # call.hits[b].league
        /\ TeamsOf(call.hits[a].league) = TeamsOf(call.hits[b].league)
        /\ \A h \in 1..Len(call.hits) :
              TeamsOf(call.hits[h].league) <= TeamsOf(call.hits[a].league)

\* C29: whenever choose_pair_from_hits returns a pair, its two teams are
\* distinct canonical teams, both among the detected hits with the returned
\* league, with or without a league hint: no pair joins teams of two leagues.
PairWithinOneLeague ==
    (call.made /\ call.res.ok) =>
        /\ call.res.t1 # call.res.t2
        /\ \A t \in {call.res.t1, call.res.t2} :
              /\ \E i \in 1..Len(call.hits) :
                    call.hits[i].team = t /\ call.hits[i].league = call.res.league
              /\ DictHas(ing.team_to_league, t)
              /\ DictGet(ing.team_to_league, t) = call.res.league

\* a pair returned, under a hint whose league had fewer than two teams, for
\* a text in which teams of another league were detected as well
PairAmongTwoLeagues ==
    /\ call.made /\ call.res.ok /\ call.league_hint # ""
    /\ call.res.method = "DOMINANT_LEAGUE"
    /\ \E i \in 1..Len(call.hits) : call.hits[i].league # call.res.league

\* C24: when two or more leagues tie for the greatest number of distinct
\* teams detected in a tweet, choose_pair_from_hits returns None, and a run
\* without --keep-mixed writes no row for the tweet.
TiesDropped ==
    /\ (call.made /\ CrossLeagueTie) => call.res = NoPair
    /\ (irun.ran /\ ~irun.keep_mixed /\ irun.out.exists) =>
          \A i \in 1..Len(irun.csv) :
             LET hits == detect_teams(irun.csv[i].text, ing.patterns, ing.team_to_league)
             IN (\E a, b \in 1..Len(hits) :
                    /\ hits[a].league # hits[b].league
                    /\ Len(OfLeague(hits, hits[a].league)) = Len(OfLeague(hits, hits[b].league))
                    /\ \A h \in 1..Len(hits) :
                          Len(OfLeague(hits, hits[h].league)) <= Len(OfLeague(hits, hits[a].league)))
                => \A k \in 2..Len(irun.out.lines) : irun.out.lines[k].text # irun.csv[i].text

\* a tie that leaves no league with two teams is dropped
LoneTeamsTieDropped ==
    (call.made /\ CrossLeagueTie /\ call.league_hint = ""
       /\ \A h \in 1..Len(call.hits) : TeamsOf(call.hits[h].league) < 2)
        => call.res = NoPair

-----------------------------------------------------------------------------
(* The per-day snapshot (SpecSnapshot)                                     *)

\* C23: the last value and the first-to-last delta of a snapshot row come
\* from one (league, away, home, market) series: every observation of the
\* group a row is computed from, the first and the last among them, has
\* one market.
DeltaWithinOneMarket ==
    \A g \in 1..Len(lrun.groups) :
        \A i \in 1..Len(lrun.groups[g].items_sorted) :
            lrun.groups[g].items_sorted[i].market = lrun.groups[g].items_sorted[1].market

\* C28: after a run, game_snapshots.csv holds at most one row for each
\* (league, game, market, last_seen), and the row of a key the run measured
\* is the row the run measured.
SnapshotKeepsNewest ==
    lrun.runs > 0 =>
        /\ \A i, j \in 1..Len(snapcsv.rows) :
              SnapKey(snapcsv.rows[i]) = SnapKey(snapcsv.rows[j]) => i = j
        /\ \A k \in 1..Len(lrun.snap) :
              \E i \in 1..Len(snapcsv.rows) : snapcsv.rows[i] = lrun.snap[k]

\* the half that holds: one row for each key
SnapshotOneRowPerKey ==
    \A i, j \in 1..Len(snapcsv.rows) :
        SnapKey(snapcsv.rows[i]) = SnapKey(snapcsv.rows[j]) => i = j

-----------------------------------------------------------------------------
(* scripts/clean_boardroom_inputs.py (SpecClean)                           *)

AllPass(rows) ==
    \A i \in 1..Len(rows) : HardFilter(rows[i], team_maps(dictionaries)) = ""

\* C30: after clean_boardroom_inputs has run on an existing
\* boardroom_inputs.csv, every row that remains in the file passes all five
\* hard filters (known league, known market, no bad-pattern team string, both
\* teams resolvable, a percentage present), also when every row of the input
\* was rejected.
CleanFilePasses ==
    (crun.runs > 0 /\ binputs.exists) => AllPass(binputs.rows)

\* a run that kept a row leaves only rows that pass
CleanKeptPasses ==
    (crun.runs > 0 /\ binputs.exists /\ crun.keep # <<>>) => AllPass(binputs.rows)

=============================================================================
